---------------------------- MODULE Spec2Model ----------------------------
(***************************************************************************)
(* A model of the session, observability and coordinator core of the       *)
(* Intelligent Business Analytics Agent:                                   *)
(*   src/src/memory/session_manager.py   Session, SessionManager           *)
(*   src/src/observability/tracer.py     Tracer                            *)
(*   src/src/observability/metrics.py    MetricsCollector                  *)
(*   src/src/memory/memory_bank.py       MemoryBank                        *)
(*   src/src/coordinator.py              CoordinatorAgent                  *)
(*                                                                         *)
(* Text is a sequence of one-character strings, so that lower(), "in" and  *)
(* endswith() are computed as Python computes them.  Python's None is a    *)
(* distinguished value of the same shape.  A dict is a function whose      *)
(* DOMAIN is the set of keys present.  The wall clock (time.time(),        *)
(* datetime.now(), pd.Timestamp.now()) is the variable now; it never runs  *)
(* backwards.                                                              *)
(***************************************************************************)
EXTENDS Integers, Sequences, FiniteSets, TLC

VARIABLES
    now,              \* the wall clock
    \* ---- a Session object on its own (session_manager.py:19-51)
    messages,         \* Session.messages, a deque(maxlen=100)
    nAdded,           \* history: number of add_message calls so far
    compacted,        \* history: a compact_context call has happened
    sessionCall,      \* history: the latest call on the session: its argument,
                      \* the messages before it and what it returned
    \* ---- SessionManager (session_manager.py:54-105)
    max_sessions,     \* SessionManager.max_sessions
    sessions,         \* SessionManager.sessions, in dict insertion order
    nextId,           \* the next fresh uuid4
    lastEvicted,      \* history: sessions removed by the latest create_session
    \* ---- Tracer (tracer.py:27-79)
    tracer_enabled,   \* Tracer.enabled
    heap,             \* the TraceSpan objects, by identity, in creation order
    spans,            \* Tracer.spans: the root spans
    active_spans,     \* Tracer.active_spans: the open-span stack
    openedUnder,      \* history: per span, the innermost span open at its entry
    raisedIn,         \* history: the spans whose wrapped operation raised
    \* ---- MetricsCollector (metrics.py:19-97)
    metrics_enabled,  \* MetricsCollector.enabled
    metrics,          \* MetricsCollector.metrics: the log of Metric records
    counters,         \* MetricsCollector.counters
    timers,           \* MetricsCollector.timers
    summaries,        \* history: what get_summary returned since the last
                      \* recording or clear call (the latest two)
    incremented,      \* history: the (name, value) arguments of the increment
                      \* calls made on the stand-alone collector since its
                      \* construction or its last clear
    recordingCalls,   \* history: the recording methods called on the stand-alone
                      \* collector since its construction or its last clear
    \* ---- MemoryBank (memory_bank.py:24-103)
    memories,         \* MemoryBank.memories, in dict insertion order
    disk,             \* the backing document at storage_path
    bankCall,         \* history: the latest call on the stand-alone MemoryBank
    bankHistory,      \* history: the mapping the bank was constructed with, the
                      \* number of store and store_insight calls, and the
                      \* seconds in which store_insight was called
    \* ---- CoordinatorAgent.analyze (coordinator.py:89-190)
    pc,               \* the step of the request in progress
    query,            \* analyze's arguments
    data_file,
    workflow,         \* analyze's locals
    data,
    analysis_results,
    report_results,
    start_time,
    response,         \* the value the latest analyze call returned
    escaped,          \* an exception has propagated out of analyze
    calls,            \* history: collaborators invoked by this request, in order
    steps,            \* history: steps this request went through, in order
    completed,        \* history: number of analyze calls that have returned
    loadFailed,       \* history: this request's _load_data returned None
    atEntry,          \* history: session messages and memories at entry
    planFailed,       \* history: this request's planning model call failed
    earlier,          \* history: analyze calls that returned in this process
                      \* before this coordinator was constructed
    \* ---- callers sharing the process-wide collector (metrics.py:100-116)
    threads,          \* per thread, its position inside increment and its locals
    overlapped,       \* history: an increment call began while another was
                      \* in progress
    \* ---- execution contexts sharing the process-wide tracer (tracer.py:82-98)
    contexts,         \* per context, the spans of the with-blocks it is inside,
                      \* innermost last
    openedBy,         \* history: per span, the context that opened it
    crossed,          \* history: a with-block was left while its span was not
                      \* on top of the open-span stack
    \* ---- a second MemoryBank on the same storage path (coordinator.py:73-74)
    otherMemories,    \* the second bank's memories, in dict insertion order
    everPersisted,    \* history: the keys that were in a document written in full
    \* ---- the CoordinatorAgent objects of one process (coordinator.py:36-87)
    coordinators,     \* per coordinator constructed, in order: its own
                      \* SessionManager.sessions, the id of its session and
                      \* the memories its MemoryBank loaded
    constructed       \* history: the latest CoordinatorAgent(...) call: its
                      \* session_id argument, the ids of the sessions held by
                      \* the coordinators constructed before it, and whether
                      \* it raised

sessionVars == <<messages, nAdded, compacted, sessionCall>>
managerVars == <<max_sessions, sessions, nextId, lastEvicted>>
tracerVars == <<tracer_enabled, heap, spans, active_spans, openedUnder, raisedIn>>
metricsVars == <<metrics_enabled, metrics, counters, timers, summaries, incremented,
                 recordingCalls>>
memoryVars == <<memories, disk, bankCall, bankHistory>>
coordVars == <<pc, query, data_file, workflow, data, analysis_results, report_results,
               start_time, response, escaped, calls, steps, completed, loadFailed,
               atEntry, planFailed, earlier>>
raceVars == <<threads, overlapped>>
contextVars == <<contexts, openedBy, crossed>>
twinVars == <<otherMemories, everPersisted>>
processVars == <<coordinators, constructed>>
sharingVars == <<raceVars, contextVars, twinVars, processVars>>
vars == <<now, sessionVars, managerVars, tracerVars, metricsVars, memoryVars, coordVars,
          sharingVars>>

----------------------------------------------------------------------------
(* Bounds of the model *)

MaxTime == 3
MaxAdds == 103
MaxMaxSessions == 2
MaxCreates == 4
MaxMessages == 1
MaxSpans == 3
MaxLog == 3
MaxRequests == 1
MaxCoordTime == 2
MaxBankCalls == 2
MaxEarlier == 1
TicksPerSecond == 2

----------------------------------------------------------------------------
(* Python values *)

PyNone == <<"<None>">>
EmptyDict == <<>>

Min(a, b) == IF a <= b THEN a ELSE b

\* d with d[k] = v (dict assignment)
DictSet(d, k, v) == [x \in (DOMAIN d) \cup {k} |-> IF x = k THEN v ELSE d[x]]

\* seq[-k:] for k >= 0: Python reads -0 as 0, so seq[-0:] is the whole list
SliceLast(seq, k) ==
    IF k = 0 \/ k >= Len(seq) THEN seq
    ELSE SubSeq(seq, Len(seq) - k + 1, Len(seq))

\* seq[:k] for k >= 0
SliceFirst(seq, k) == SubSeq(seq, 1, Min(k, Len(seq)))

DigitChars == <<"0", "1", "2", "3", "4", "5", "6", "7", "8", "9">>

\* str(n) for n >= 0
RECURSIVE Str(_)
Str(n) ==
    IF n < 10 THEN <<DigitChars[n + 1]>>
    ELSE Append(Str(n \div 10), DigitChars[(n % 10) + 1])

----------------------------------------------------------------------------
(* The clock *)

Tick ==
    /\ now < MaxTime
    /\ now' = now + 1

----------------------------------------------------------------------------
(* Session *)

Capacity == 100

\* Message(role=..., content=...): the pair get_context returns; nothing in the
\* repository reads a message's timestamp or metadata
Message(role, content) == [role |-> role, content |-> content]

\* a bounded list that refuses a new item once it is full
DequeAppendDropNewest(dq, x) ==
    IF Len(dq) >= Capacity THEN dq ELSE Append(dq, x)

\* deque(maxlen=Capacity).append: a full deque drops its leftmost item
DequeAppend(dq, x) ==
    IF Len(dq) >= Capacity THEN Append(Tail(dq), x) ELSE Append(dq, x)

\* Session.add_message
AddMessage(dq, role, content) == DequeAppend(dq, Message(role, content))

\* Session.compact_context
CompactContext(dq, keep_recent) ==
    IF Len(dq) > keep_recent THEN SliceLast(dq, keep_recent) ELSE dq

\* the n-th message added to the stand-alone session: the roles alternate as in
\* a conversation and the content is the numeral of n, so that every message
\* is distinct and order and eviction are observable
NthMessage(n) == Message(IF n % 2 = 1 THEN "user" ELSE "assistant", Str(n))

KeepRecentValues == {0, 1, 10, Capacity}

\* Session.get_context: the role/content pairs of list(self.messages)[-max_messages:]
GetContext(dq, max_messages) ==
    LET recent_messages == SliceLast(dq, max_messages)
    IN  [i \in 1..Len(recent_messages) |->
            [role |-> recent_messages[i].role, content |-> recent_messages[i].content]]

ContextSizes == {0, 1, 20}

\* the record of a call on the session
SessionCall(op, arg, before, result) ==
    [op |-> op, arg |-> arg, before |-> before, result |-> result]

SessionAddMessage ==
    /\ nAdded < MaxAdds
    /\ messages' = AddMessage(messages, NthMessage(nAdded + 1).role,
                              NthMessage(nAdded + 1).content)
    /\ nAdded' = nAdded + 1
    /\ sessionCall' = SessionCall("add_message", nAdded + 1, messages, <<>>)
    /\ UNCHANGED <<now, compacted, managerVars, tracerVars, metricsVars, memoryVars, coordVars>>
    /\ UNCHANGED sharingVars

SessionCompactContext ==
    /\ \E keep_recent \in KeepRecentValues :
           /\ messages' = CompactContext(messages, keep_recent)
           /\ sessionCall' = SessionCall("compact_context", keep_recent, messages, <<>>)
    /\ compacted' = TRUE
    /\ UNCHANGED <<now, nAdded, managerVars, tracerVars, metricsVars, memoryVars, coordVars>>
    /\ UNCHANGED sharingVars

SessionGetContext ==
    /\ \E max_messages \in ContextSizes :
           sessionCall' = SessionCall("get_context", max_messages, messages,
                                      GetContext(messages, max_messages))
    /\ UNCHANGED <<now, messages, nAdded, compacted, managerVars, tracerVars, metricsVars, memoryVars, coordVars>>
    /\ UNCHANGED sharingVars

----------------------------------------------------------------------------
(* SessionManager *)

DefaultMaxSessions == 1000

Users == {"demo_user", "default_user"}

\* Session(id=..., user_id=...): created_at defaults to datetime.now() and the
\* history starts empty
NewSession(id, user_id, t) ==
    [id |-> id, user_id |-> user_id, created_at |-> t, messages |-> <<>>]

SessionIds(ss) == {ss[i].id : i \in 1..Len(ss)}

\* the position of session id in the dict, 0 when absent
IndexOf(ss, id) ==
    IF id \in SessionIds(ss)
    THEN CHOOSE i \in 1..Len(ss) : ss[i].id = id
    ELSE 0

\* SessionManager.get_session
GetSession(ss, id) ==
    IF IndexOf(ss, id) = 0 THEN PyNone ELSE ss[IndexOf(ss, id)]

\* one step of the stable sort: s goes after every item whose key is <= its own
RECURSIVE InsertByCreatedAt(_, _)
InsertByCreatedAt(sorted, s) ==
    IF sorted = <<>> THEN <<s>>
    ELSE IF sorted[Len(sorted)].created_at <= s.created_at
         THEN Append(sorted, s)
         ELSE Append(InsertByCreatedAt(SubSeq(sorted, 1, Len(sorted) - 1), s),
                     sorted[Len(sorted)])

\* sorted(self.sessions.items(), key=lambda x: x[1].created_at): stable
RECURSIVE SortedByCreatedAt(_)
SortedByCreatedAt(ss) ==
    IF ss = <<>> THEN <<>>
    ELSE InsertByCreatedAt(SortedByCreatedAt(SubSeq(ss, 1, Len(ss) - 1)),
                           ss[Len(ss)])

\* del self.sessions[id] for every id in ids
Without(ss, ids) ==
    LET Keep(s) == s.id \notin ids IN SelectSeq(ss, Keep)

\* an eviction that takes the last to_remove of the sorted list
CleanupVictimsNewest(ss, max) ==
    IF Len(ss) <= max THEN {}
    ELSE SessionIds(SliceLast(SortedByCreatedAt(ss), Len(ss) - max))

\* the ids _cleanup_old_sessions removes: the first to_remove of the sorted list
CleanupVictims(ss, max) ==
    IF Len(ss) <= max THEN {}
    ELSE SessionIds(SliceFirst(SortedByCreatedAt(ss), Len(ss) - max))

\* SessionManager._cleanup_old_sessions
CleanupOldSessions(ss, max) == Without(ss, CleanupVictims(ss, max))

\* SessionManager.create_session: the dict after the call
CreateSession(ss, max, id, user_id, t) ==
    LET added == Append(ss, NewSession(id, user_id, t))
    IN  IF Len(added) > max THEN CleanupOldSessions(added, max) ELSE added

\* SessionManager.update_session: a no-op for an unknown id
UpdateSession(ss, id, role, content) ==
    IF IndexOf(ss, id) = 0 THEN ss
    ELSE [ss EXCEPT ![IndexOf(ss, id)].messages = AddMessage(@, role, content)]

\* SessionManager.delete_session
DeleteSession(ss, id) ==
    IF id \in SessionIds(ss) THEN Without(ss, {id}) ELSE ss

\* session_id: Optional[str] = None
NoSessionId == 0

\* CoordinatorAgent.__init__, from "Initialize session management" on, called
\* with a usable api_key: the SessionManager it constructs, its session, the
\* memories its MemoryBank loads, and whether it raised
CoordinatorInit(session_id, user_id, id, file, t) ==
    LET session_manager == <<>>
    IN  IF session_id # NoSessionId
        THEN IF IndexOf(session_manager, session_id) = 0
             THEN [raised |-> TRUE, session_manager |-> session_manager,
                   session |-> NoSessionId, memory_bank |-> <<>>]
             ELSE [raised |-> FALSE, session_manager |-> session_manager,
                   session |-> session_id, memory_bank |-> file]
        ELSE [raised |-> FALSE,
              session_manager |-> CreateSession(session_manager, DefaultMaxSessions,
                                                id, user_id, t),
              session |-> id, memory_bank |-> file]

ManagerCreateSession ==
    /\ nextId <= MaxCreates
    /\ \E user_id \in Users :
         LET added == Append(sessions, NewSession(nextId, user_id, now))
         IN  /\ sessions' = CreateSession(sessions, max_sessions, nextId, user_id, now)
             /\ lastEvicted' = {added[i] : i \in {j \in 1..Len(added) :
                                    added[j].id \notin SessionIds(sessions')}}
    /\ nextId' = nextId + 1
    /\ UNCHANGED <<now, max_sessions, sessionVars, tracerVars, metricsVars, memoryVars, coordVars>>
    /\ UNCHANGED sharingVars

ManagerDeleteSession ==
    /\ \E id \in 1..MaxCreates : sessions' = DeleteSession(sessions, id)
    /\ UNCHANGED <<now, max_sessions, nextId, lastEvicted, sessionVars, tracerVars, metricsVars, memoryVars, coordVars>>
    /\ UNCHANGED sharingVars

\* update_session is also the only access to a session after its creation
ManagerUpdateSession ==
    /\ \E id \in 1..MaxCreates :
         /\ IndexOf(sessions, id) # 0 =>
                Len(GetSession(sessions, id).messages) < MaxMessages
         /\ sessions' = UpdateSession(sessions, id, "user", <<"h", "i">>)
    /\ UNCHANGED <<now, max_sessions, nextId, lastEvicted, sessionVars, tracerVars, metricsVars, memoryVars, coordVars>>
    /\ UNCHANGED sharingVars

ManagerTick == Tick /\ UNCHANGED <<sessionVars, managerVars, tracerVars, metricsVars, memoryVars, coordVars, sharingVars>>

----------------------------------------------------------------------------
(* Tracer *)

\* TraceSpan.end_time while the span is open (None)
NoTime == -1

Last(seq) == seq[Len(seq)]
Front(seq) == SubSeq(seq, 1, Len(seq) - 1)
Range(seq) == {seq[i] : i \in 1..Len(seq)}

\* TraceSpan(name=name, start_time=time.time(), metadata=metadata or {})
TraceSpan(name, t, metadata) ==
    [name |-> name, start_time |-> t, end_time |-> NoTime,
     metadata |-> metadata, children |-> <<>>]

\* the tracer's state as one value
TracerState(h, roots, active) == [heap |-> h, spans |-> roots, active_spans |-> active]

\* an entry that attaches the new span under the outermost open span
SpanEnterUnderOutermost(T, name, metadata, t) ==
    LET id == Len(T.heap) + 1
        h1 == Append(T.heap, TraceSpan(name, t, metadata))
    IN  IF T.active_spans # <<>>
        THEN TracerState([h1 EXCEPT ![T.active_spans[1]].children = Append(@, id)],
                         T.spans, Append(T.active_spans, id))
        ELSE TracerState(h1, Append(T.spans, id), Append(T.active_spans, id))

\* Tracer.span up to the yield (lines 42-54); the new span's identity is
\* Len(T.heap) + 1
SpanEnter(T, name, metadata, t) ==
    LET id == Len(T.heap) + 1
        h1 == Append(T.heap, TraceSpan(name, t, metadata))
    IN  IF T.active_spans # <<>>
        THEN TracerState([h1 EXCEPT ![Last(T.active_spans)].children = Append(@, id)],
                         T.spans, Append(T.active_spans, id))
        ELSE TracerState(h1, Append(T.spans, id), Append(T.active_spans, id))

\* Tracer.span without try/finally: an exception skips the close
SpanExitNoFinally(T, id, t, raised) ==
    IF raised THEN T
    ELSE TracerState([T.heap EXCEPT ![id].end_time = t], T.spans, Front(T.active_spans))

\* an exit that closes its span and leaves the stack alone
SpanExitNoPop(T, id, t, raised) ==
    TracerState([T.heap EXCEPT ![id].end_time = t], T.spans, T.active_spans)

\* Tracer.span after the yield (lines 58-60): the finally block closes the span
\* it created and pops the top of the stack, whether or not the body raised
SpanExit(T, id, t, raised) ==
    TracerState([T.heap EXCEPT ![id].end_time = t], T.spans, Front(T.active_spans))

TracerNow == TracerState(heap, spans, active_spans)

SpanNames == {"coordinator.analyze", "data_analysis"}

\* entering a with-block on the tracer; a disabled tracer yields at once
TracerSpanEnter ==
    /\ Len(heap) < MaxSpans
    /\ \E name \in SpanNames :
         LET T == IF tracer_enabled THEN SpanEnter(TracerNow, name, EmptyDict, now)
                  ELSE TracerNow
         IN  /\ heap' = T.heap
             /\ spans' = T.spans
             /\ active_spans' = T.active_spans
    /\ openedUnder' = IF tracer_enabled
                      THEN Append(openedUnder,
                                  IF active_spans = <<>> THEN 0 ELSE Last(active_spans))
                      ELSE openedUnder
    /\ UNCHANGED <<now, tracer_enabled, raisedIn, sessionVars, managerVars, metricsVars, memoryVars, coordVars>>
    /\ UNCHANGED sharingVars

\* leaving the innermost with-block (sequential use is LIFO), normally or by
\* an exception
TracerSpanExit ==
    /\ tracer_enabled
    /\ active_spans # <<>>
    /\ \E raised \in BOOLEAN :
         LET id == Last(active_spans)
             T == SpanExit(TracerNow, id, now, raised)
         IN  /\ heap' = T.heap
             /\ spans' = T.spans
             /\ active_spans' = T.active_spans
             /\ raisedIn' = IF raised THEN raisedIn \cup {id} ELSE raisedIn
    /\ UNCHANGED <<now, tracer_enabled, openedUnder, sessionVars, managerVars, metricsVars, memoryVars, coordVars>>
    /\ UNCHANGED sharingVars

TracerTick == Tick /\ UNCHANGED <<sessionVars, managerVars, tracerVars, metricsVars, memoryVars, coordVars, sharingVars>>

\* ---- two execution contexts (threads, tasks) entering and leaving with-blocks
\* on the process-wide tracer.  Each context leaves its own blocks innermost
\* first; nothing orders the blocks of one context against the other's.

Contexts == {"A", "B"}

\* a context enters a with-block (lines 42-54)
ContextSpanEnter ==
    /\ tracer_enabled
    /\ Len(heap) < MaxSpans
    /\ \E c \in Contexts :
         LET T == SpanEnter(TracerNow, "coordinator.analyze", [context |-> c], now)
         IN  /\ heap' = T.heap
             /\ spans' = T.spans
             /\ active_spans' = T.active_spans
             /\ contexts' = [contexts EXCEPT ![c] = Append(@, Len(T.heap))]
             /\ openedBy' = Append(openedBy, c)
    /\ openedUnder' = Append(openedUnder,
                             IF active_spans = <<>> THEN 0 ELSE Last(active_spans))
    /\ UNCHANGED <<now, tracer_enabled, raisedIn, crossed, sessionVars, managerVars,
                   metricsVars, memoryVars, coordVars, raceVars, twinVars, processVars>>

\* a context leaves its innermost with-block (lines 58-60): the span the block
\* created gets its end_time, and the top of the shared stack is popped
ContextSpanExit ==
    /\ tracer_enabled
    /\ \E c \in Contexts, raised \in BOOLEAN :
         /\ contexts[c] # <<>>
         /\ LET id == Last(contexts[c])
                T == SpanExit(TracerNow, id, now, raised)
            IN  /\ heap' = T.heap
                /\ spans' = T.spans
                /\ active_spans' = T.active_spans
                /\ crossed' = (crossed \/ Last(active_spans) # id)
         /\ contexts' = [contexts EXCEPT ![c] = Front(@)]
    /\ UNCHANGED <<now, tracer_enabled, openedUnder, openedBy, raisedIn, sessionVars,
                   managerVars, metricsVars, memoryVars, coordVars, raceVars, twinVars, processVars>>

ContextTick == Tick /\ UNCHANGED <<sessionVars, managerVars, tracerVars, metricsVars, memoryVars, coordVars, sharingVars>>

----------------------------------------------------------------------------
(* MetricsCollector *)

\* a defaultdict read: the default for a key that is absent
DictGet(d, k, default) == IF k \in DOMAIN d THEN d[k] ELSE default

\* Metric(name=..., value=..., tags=tags or {}); timestamp defaults to
\* datetime.now().  A name is the list of the parts the f-string joins.
Metric(name, value, t) == [name |-> name, value |-> value, timestamp |-> t, tags |-> EmptyDict]

\* the collector's state as one value
MetricsState(log, c, tm) == [metrics |-> log, counters |-> c, timers |-> tm]

\* an increment that stores the value passed instead of adding it
IncrementOverwrite(M, enabled, name, value, t) ==
    IF ~enabled THEN M
    ELSE LET c1 == DictSet(M.counters, name, value)
         IN  MetricsState(Append(M.metrics, Metric(<<name, ".count">>, c1[name], t)),
                          c1, M.timers)

\* MetricsCollector.increment
Increment(M, enabled, name, value, t) ==
    IF ~enabled THEN M
    ELSE LET c1 == DictSet(M.counters, name, DictGet(M.counters, name, 0) + value)
         IN  MetricsState(Append(M.metrics, Metric(<<name, ".count">>, c1[name], t)),
                          c1, M.timers)

\* MetricsCollector.record_timing
RecordTiming(M, enabled, name, duration, t) ==
    IF ~enabled THEN M
    ELSE MetricsState(Append(M.metrics, Metric(<<name, ".duration">>, duration, t)),
                      M.counters,
                      DictSet(M.timers, name, Append(DictGet(M.timers, name, <<>>), duration)))

\* a gauge that records whether or not the collector is enabled
GaugeAlways(M, enabled, name, value, t) ==
    MetricsState(Append(M.metrics, Metric(<<name>>, value, t)), M.counters, M.timers)

\* MetricsCollector.gauge
Gauge(M, enabled, name, value, t) ==
    IF ~enabled THEN M
    ELSE MetricsState(Append(M.metrics, Metric(<<name>>, value, t)), M.counters, M.timers)

\* MetricsCollector.clear
Clear(M) == MetricsState(<<>>, EmptyDict, EmptyDict)

RECURSIVE Sum(_)
Sum(seq) == IF seq = <<>> THEN 0 ELSE seq[1] + Sum(Tail(seq))

SeqMin(seq) == CHOOSE x \in Range(seq) : \A y \in Range(seq) : x <= y
SeqMax(seq) == CHOOSE x \in Range(seq) : \A y \in Range(seq) : x >= y

\* the statistics of one timer (lines 83-89); avg is the exact quotient
\* sum / len, kept as numerator and denominator
TimerStats(timings) ==
    [count |-> Len(timings), min |-> SeqMin(timings), max |-> SeqMax(timings),
     avg |-> <<Sum(timings), Len(timings)>>, total |-> Sum(timings)]

\* MetricsCollector.get_summary: the value returned
GetSummary(M, enabled, t) ==
    IF ~enabled THEN EmptyDict
    ELSE [counters |-> M.counters,
          timers |-> [n \in {k \in DOMAIN M.timers : M.timers[k] # <<>>} |->
                         TimerStats(M.timers[n])],
          timestamp |-> t]

MetricsNow == MetricsState(metrics, counters, timers)

CounterNames == {"coordinator.analysis_requests", "coordinator.analysis_success"}
TimerNames == {"coordinator.analysis_duration"}
MetricValues == {1, 2}

SetMetrics(M) ==
    /\ metrics' = M.metrics
    /\ counters' = M.counters
    /\ timers' = M.timers

MetricsIncrement ==
    /\ Len(metrics) < MaxLog
    /\ Len(incremented) < MaxLog
    /\ \E name \in CounterNames, value \in MetricValues :
         /\ SetMetrics(Increment(MetricsNow, metrics_enabled, name, value, now))
         /\ incremented' = Append(incremented, [name |-> name, value |-> value])
         /\ recordingCalls' = recordingCalls \cup {"increment"}
    /\ summaries' = <<>>
    /\ UNCHANGED <<now, metrics_enabled, sessionVars, managerVars, tracerVars, memoryVars, coordVars>>
    /\ UNCHANGED sharingVars

MetricsRecordTiming ==
    /\ Len(metrics) < MaxLog
    /\ \E name \in TimerNames, duration \in MetricValues :
         SetMetrics(RecordTiming(MetricsNow, metrics_enabled, name, duration, now))
    /\ summaries' = <<>>
    /\ UNCHANGED <<now, metrics_enabled, incremented, sessionVars, managerVars, tracerVars, memoryVars, coordVars>>
    /\ recordingCalls' = recordingCalls \cup {"record_timing"}
    /\ UNCHANGED sharingVars

MetricsGauge ==
    /\ Len(metrics) < MaxLog
    /\ \E name \in TimerNames, value \in MetricValues :
         SetMetrics(Gauge(MetricsNow, metrics_enabled, name, value, now))
    /\ summaries' = <<>>
    /\ UNCHANGED <<now, metrics_enabled, incremented, sessionVars, managerVars, tracerVars, memoryVars, coordVars>>
    /\ recordingCalls' = recordingCalls \cup {"gauge"}
    /\ UNCHANGED sharingVars

MetricsClear ==
    /\ SetMetrics(Clear(MetricsNow))
    /\ summaries' = <<>>
    /\ incremented' = <<>>
    /\ recordingCalls' = {}
    /\ UNCHANGED <<now, metrics_enabled, sessionVars, managerVars, tracerVars, memoryVars, coordVars>>
    /\ UNCHANGED sharingVars

\* a get_summary that empties the timers it has reported
MetricsGetSummaryDraining ==
    /\ summaries' = SliceLast(Append(summaries,
                                     GetSummary(MetricsNow, metrics_enabled, now)), 2)
    /\ timers' = EmptyDict
    /\ UNCHANGED <<now, metrics_enabled, metrics, counters, incremented, recordingCalls,
                   sessionVars, managerVars, tracerVars, memoryVars, coordVars>>
    /\ UNCHANGED sharingVars

\* a get_summary call: only reads the collector
MetricsGetSummary ==
    /\ summaries' = SliceLast(Append(summaries,
                                     GetSummary(MetricsNow, metrics_enabled, now)), 2)
    /\ UNCHANGED <<now, metrics_enabled, metrics, counters, timers, incremented, recordingCalls,
                   sessionVars, managerVars, tracerVars, memoryVars, coordVars>>
    /\ UNCHANGED sharingVars

MetricsTick == Tick /\ UNCHANGED <<sessionVars, managerVars, tracerVars, metricsVars, memoryVars, coordVars, sharingVars>>

\* ---- increment called from several threads on the process-wide collector.
\* A thread can be preempted between the read of counters[name] and the store
\* of the sum (line 33), and before the append to the log (lines 34-40).

Threads == {1, 2}

IdleThread == [pc |-> "idle", name |-> "", value |-> 0, read |-> 0]

\* a store that writes the value passed instead of the sum
CounterStoreValue(c, name, read, value) == DictSet(c, name, value)

\* line 33, first half: self.counters[name] is read; the defaultdict inserts 0
\* for a name it does not hold
CounterLoad(c, name) == DictSet(c, name, DictGet(c, name, 0))

\* line 33, second half: the sum of the value read and the value passed is stored
CounterStore(c, name, read, value) == DictSet(c, name, read + value)

\* the call begins: the enabled test and the read of the counter
ThreadIncrementLoad ==
    /\ Len(incremented) < MaxLog
    /\ \E t \in Threads, name \in CounterNames, value \in MetricValues :
         /\ threads[t].pc = "idle"
         /\ incremented' = Append(incremented, [name |-> name, value |-> value])
         /\ overlapped' = (overlapped \/ \E u \in Threads : threads[u].pc # "idle")
         /\ IF metrics_enabled
            THEN /\ counters' = CounterLoad(counters, name)
                 /\ threads' = [threads EXCEPT ![t] =
                                    [pc |-> "loaded", name |-> name, value |-> value,
                                     read |-> counters'[name]]]
            ELSE UNCHANGED <<counters, threads>>
    /\ recordingCalls' = recordingCalls \cup {"increment"}
    /\ summaries' = <<>>
    /\ UNCHANGED <<now, metrics_enabled, metrics, timers, sessionVars, managerVars,
                   tracerVars, memoryVars, coordVars, contextVars, twinVars, processVars>>

\* the sum is stored
ThreadIncrementStore ==
    /\ \E t \in Threads :
         /\ threads[t].pc = "loaded"
         /\ counters' = CounterStore(counters, threads[t].name, threads[t].read,
                                     threads[t].value)
         /\ threads' = [threads EXCEPT ![t].pc = "stored"]
    /\ UNCHANGED <<now, metrics_enabled, metrics, timers, summaries, incremented,
                   recordingCalls, overlapped, sessionVars, managerVars, tracerVars,
                   memoryVars, coordVars, contextVars, twinVars, processVars>>

\* lines 34-40: the counter is read again for the <name>.count record, and the
\* call returns
ThreadIncrementLog ==
    /\ \E t \in Threads :
         /\ threads[t].pc = "stored"
         /\ metrics' = Append(metrics, Metric(<<threads[t].name, ".count">>,
                                              counters[threads[t].name], now))
         /\ threads' = [threads EXCEPT ![t] = IdleThread]
    /\ UNCHANGED <<now, metrics_enabled, counters, timers, summaries, incremented,
                   recordingCalls, overlapped, sessionVars, managerVars, tracerVars,
                   memoryVars, coordVars, contextVars, twinVars, processVars>>

----------------------------------------------------------------------------
(* Text *)

LowerChar(c) ==
    CASE c = "A" -> "a"
      [] c = "D" -> "d"
      [] c = "R" -> "r"
      [] c = "S" -> "s"
      [] OTHER -> c

\* str.lower()
Lower(text) == [i \in 1..Len(text) |-> LowerChar(text[i])]

\* needle in text
Contains(text, needle) ==
    \E i \in 0..(Len(text) - Len(needle)) :
        SubSeq(text, i + 1, i + Len(needle)) = needle

\* text.endswith(suffix)
EndsWith(text, suffix) ==
    /\ Len(text) >= Len(suffix)
    /\ SubSeq(text, Len(text) - Len(suffix) + 1, Len(text)) = suffix

\* bool(text) for a str or None
Truthy(text) == text # PyNone /\ text # <<>>

----------------------------------------------------------------------------
(* MemoryBank *)

\* MemoryEntry(key, value, category, timestamp, metadata)
MemoryEntry(key, value, category, t, metadata) ==
    [key |-> key, value |-> value, category |-> category,
     timestamp |-> t, metadata |-> metadata]

MemoryKeys(mem) == {mem[i].key : i \in 1..Len(mem)}

\* self.memories[key] = entry: a key already present keeps its position
MemoryPut(mem, entry) ==
    IF entry.key \in MemoryKeys(mem)
    THEN [i \in 1..Len(mem) |-> IF mem[i].key = entry.key THEN entry ELSE mem[i]]
    ELSE Append(mem, entry)

\* the metadata examples are told apart by their field: "pair" holds a tuple,
\* which JSON writes as a list, and "when" holds a datetime, which json.dump
\* rejects; every other field holds text or a number
Serializable(metadata) == "when" \notin DOMAIN metadata

AllSerializable(mem) == \A i \in 1..Len(mem) : Serializable(mem[i].metadata)

\* what json.dump followed by json.load makes of a metadata dict
JsonOf(metadata) ==
    [k \in DOMAIN metadata |->
        IF k = "pair" THEN <<"list", metadata[k][2]>> ELSE metadata[k]]

\* datetime.isoformat(): the clock reading as text
IsoFormat(t) == Str(t)

IsDigits(text) ==
    /\ text # <<>>
    /\ \A i \in 1..Len(text) : text[i] \in Range(DigitChars)

DigitValue(c) == CHOOSE d \in 0..9 : DigitChars[d + 1] = c

\* datetime.fromisoformat(text) for a text it accepts
RECURSIVE FromIso(_)
FromIso(text) ==
    IF Len(text) = 1 THEN DigitValue(text[1])
    ELSE 10 * FromIso(Front(text)) + DigitValue(Last(text))

\* one entry of the document (lines 95-98): asdict(entry) with the timestamp
\* replaced by its isoformat
JsonEntry(entry) ==
    [key |-> entry.key, value |-> entry.value, category |-> entry.category,
     timestamp |-> IsoFormat(entry.timestamp), metadata |-> JsonOf(entry.metadata)]

\* the backing file: absent, a complete document, or a document cut short by
\* a write that failed after open(path, 'w') had truncated it
NoFile == [state |-> "missing", doc |-> <<>>]
DocumentLatestOnly(mem) ==
    [state |-> "written",
     doc |-> IF mem = <<>> THEN <<>> ELSE <<JsonEntry(Last(mem))>>]
Document(mem) == [state |-> "written", doc |-> [i \in 1..Len(mem) |-> JsonEntry(mem[i])]]
Truncated == [state |-> "truncated", doc |-> <<>>]

\* lines 83-85 succeed on an entry of the document: the timestamp parses and
\* MemoryEntry(**entry_data) gets the fields it knows, metadata being optional
Decodable(j) ==
    /\ {"key", "value", "category", "timestamp"} \subseteq DOMAIN j
    /\ DOMAIN j \subseteq {"key", "value", "category", "timestamp", "metadata"}
    /\ IsDigits(j.timestamp)

DecodeEntry(j) ==
    MemoryEntry(j.key, j.value, j.category, FromIso(j.timestamp),
                IF "metadata" \in DOMAIN j THEN j.metadata ELSE EmptyDict)

\* the loop of _load_memories over the first n entries of the document: the
\* first entry that fails to decode ends it, the entries before it stay loaded
RECURSIVE LoadEntries(_, _)
LoadEntries(doc, n) ==
    IF n = 0 THEN [mem |-> <<>>, failed |-> FALSE]
    ELSE LET before == LoadEntries(doc, n - 1)
         IN  IF before.failed \/ ~Decodable(doc[n])
             THEN [mem |-> before.mem, failed |-> TRUE]
             ELSE [mem |-> MemoryPut(before.mem, DecodeEntry(doc[n])), failed |-> FALSE]

\* MemoryBank.__init__ with _load_memories: the mapping a new MemoryBank on
\* this file starts with.  A missing file returns at once and invalid JSON
\* raises in json.load, before any entry is read.
LoadMemories(file) ==
    IF file.state = "written" THEN LoadEntries(file.doc, Len(file.doc)).mem ELSE <<>>

\* MemoryBank.retrieve
Retrieve(mem, key) ==
    IF key \in MemoryKeys(mem)
    THEN mem[CHOOSE i \in 1..Len(mem) : mem[i].key = key].value
    ELSE PyNone

\* category=None
NoCategory == "<None>"

\* MemoryBank.search: "if category and ..." and "if query and ..." test the
\* truth of the arguments
Search(mem, category, q) ==
    LET Keeps(entry) ==
            /\ ~(category # NoCategory /\ category # "" /\ entry.category # category)
            /\ ~(Truthy(q) /\ ~Contains(Lower(entry.value), Lower(q)))
    IN  SelectSeq(mem, Keeps)

\* what can happen to _save_memories: the write succeeds; mkdir raises (line 91,
\* outside the try); open fails or json.dump fails (inside the try, swallowed)
PersistOutcomes == {"saved", "mkdir_raises", "open_fails", "dump_fails"}

\* MemoryBank._save_memories: the file afterwards
SaveMemories(mem, file, outcome) ==
    CASE outcome \in {"mkdir_raises", "open_fails"} -> file
      [] outcome = "dump_fails" \/ ~AllSerializable(mem) -> Truncated
      [] OTHER -> Document(mem)

\* _save_memories raises to its caller
SaveRaises(outcome) == outcome = "mkdir_raises"

\* MemoryBank.store: the in-memory mapping afterwards
Store(mem, key, value, category, metadata, t) ==
    MemoryPut(mem, MemoryEntry(key, value, category, t, metadata))

InsightPrefix == <<"i", "n", "s", "i", "g", "h", "t", "_">>

\* a key made from every clock reading
InsightKeyPerTick(t) == InsightPrefix \o Str(t)

\* the key store_insight generates: the clock at second resolution
InsightKey(t) == InsightPrefix \o Str(t \div TicksPerSecond)

\* a store_insight that files the insight under the default category
StoreInsightAsGeneral(mem, insight, metadata, t) ==
    Store(mem, InsightKey(t), insight, "general", metadata, t)

\* MemoryBank.store_insight: the in-memory mapping afterwards
StoreInsight(mem, insight, metadata, t) ==
    Store(mem, InsightKey(t), insight, "insight", metadata, t)

\* the store calls made on the stand-alone bank: a plain entry, a second key
\* whose metadata holds a tuple, and an overwrite of that key whose metadata
\* json.dump rejects
BankStores ==
    << [key |-> <<"k", "1">>, value |-> <<"a", "d">>, category |-> "preference",
        metadata |-> EmptyDict],
       [key |-> <<"k", "2">>, value |-> <<"a", "s", "a">>, category |-> "preference",
        metadata |-> [pair |-> <<"tuple", <<"a", "b">>>>]],
       [key |-> <<"k", "2">>, value |-> <<"S", "a">>, category |-> "insight",
        metadata |-> [when |-> <<"datetime", 1>>]] >>

BankInsights == {<<"S", "a">>, <<"a", "d">>}

\* the search calls made on the stand-alone bank: no filter, each filter alone,
\* both, and the empty string as category and as query
SearchArguments ==
    << [category |-> NoCategory, query |-> PyNone],
       [category |-> "insight", query |-> PyNone],
       [category |-> NoCategory, query |-> <<"S", "A">>],
       [category |-> "preference", query |-> <<"S", "A">>],
       [category |-> "", query |-> PyNone],
       [category |-> NoCategory, query |-> <<>>] >>

\* what the backing file can hold when a MemoryBank is constructed: nothing,
\* invalid JSON, a document whose second entry has a timestamp fromisoformat
\* rejects, and one whose first entry has a field MemoryEntry does not know
InitialFiles ==
    LET good1 == JsonEntry(MemoryEntry(<<"k", "1">>, <<"S", "a">>, "insight", 1, EmptyDict))
        good2 == JsonEntry(MemoryEntry(<<"k", "2">>, <<"a", "d">>, "preference", 1, EmptyDict))
        badTimestamp == [good2 EXCEPT !.timestamp = <<"x">>]
        badField == [key |-> good1.key, value |-> good1.value,
                     category |-> good1.category, timestamp |-> good1.timestamp,
                     metadata |-> good1.metadata, colour |-> <<"r">>]
    IN  << NoFile,
           Truncated,
           [state |-> "written", doc |-> <<good1, badTimestamp>>],
           [state |-> "written", doc |-> <<badField, good2>>] >>

\* MemoryBank.store
BankStore ==
    /\ bankHistory.calls < MaxBankCalls
    /\ \E i \in 1..Len(BankStores), outcome \in PersistOutcomes :
         LET a == BankStores[i]
             mem1 == Store(memories, a.key, a.value, a.category, a.metadata, now)
         IN  /\ memories' = mem1
             /\ disk' = SaveMemories(mem1, disk, outcome)
             /\ bankCall' = [op |-> "store", key |-> a.key, value |-> a.value,
                             category |-> a.category, outcome |-> outcome,
                             raised |-> SaveRaises(outcome)]
    /\ bankHistory' = [bankHistory EXCEPT !.calls = @ + 1]
    /\ UNCHANGED <<now, sessionVars, managerVars, tracerVars, metricsVars, coordVars>>
    /\ UNCHANGED sharingVars

\* MemoryBank.store_insight
BankStoreInsight ==
    /\ bankHistory.calls < MaxBankCalls
    /\ \E insight \in BankInsights, outcome \in PersistOutcomes :
         LET mem1 == StoreInsight(memories, insight, EmptyDict, now)
         IN  /\ memories' = mem1
             /\ disk' = SaveMemories(mem1, disk, outcome)
             /\ bankCall' = [op |-> "store_insight", key |-> InsightKey(now),
                             value |-> insight, at |-> now, outcome |-> outcome,
                             raised |-> SaveRaises(outcome)]
    /\ bankHistory' = [bankHistory EXCEPT !.calls = @ + 1, !.insights = @ + 1,
                                          !.seconds = @ \cup {now \div TicksPerSecond}]
    /\ UNCHANGED <<now, sessionVars, managerVars, tracerVars, metricsVars, coordVars>>
    /\ UNCHANGED sharingVars

\* MemoryBank.search
BankSearch ==
    /\ \E i \in 1..Len(SearchArguments) :
         LET a == SearchArguments[i]
         IN  bankCall' = [op |-> "search", category |-> a.category, query |-> a.query,
                          result |-> Search(memories, a.category, a.query)]
    /\ UNCHANGED <<now, memories, disk, bankHistory,
                   sessionVars, managerVars, tracerVars, metricsVars, coordVars>>
    /\ UNCHANGED sharingVars

\* MemoryBank(storage_path) constructed again on the same file
BankReload ==
    /\ memories' = LoadMemories(disk)
    /\ bankCall' = [op |-> "init", file |-> disk]
    /\ bankHistory' = [calls |-> bankHistory.calls, loaded |-> memories',
                       seconds |-> {}, insights |-> 0]
    /\ UNCHANGED <<now, disk, sessionVars, managerVars, tracerVars, metricsVars, coordVars>>
    /\ UNCHANGED sharingVars

BankTick == Tick /\ UNCHANGED <<sessionVars, managerVars, tracerVars, metricsVars, memoryVars, coordVars, sharingVars>>

\* ---- two MemoryBank objects constructed on the same storage path, as two
\* coordinators of one process are (MemoryBank() uses the default path).  Each
\* keeps its own memories and writes all of them on every store.

\* store through one bank: its mapping afterwards, the file afterwards, and the
\* keys known to have been written in full
StoreThrough(mem, a, outcome) ==
    LET mem1 == Store(mem, a.key, a.value, a.category, a.metadata, now)
        file == SaveMemories(mem1, disk, outcome)
    IN  [memories |-> mem1,
         disk |-> file,
         persisted |-> IF outcome = "saved" /\ AllSerializable(mem1)
                       THEN everPersisted \cup MemoryKeys(mem1)
                       ELSE everPersisted,
         call |-> [op |-> "store", key |-> a.key, value |-> a.value,
                   category |-> a.category, outcome |-> outcome,
                   raised |-> SaveRaises(outcome)]]

\* MemoryBank.store on the first bank
FirstBankStore ==
    /\ bankHistory.calls < MaxBankCalls
    /\ \E i \in 1..Len(BankStores), outcome \in PersistOutcomes :
         LET r == StoreThrough(memories, BankStores[i], outcome)
         IN  /\ memories' = r.memories
             /\ disk' = r.disk
             /\ everPersisted' = r.persisted
             /\ bankCall' = r.call
    /\ bankHistory' = [bankHistory EXCEPT !.calls = @ + 1]
    /\ UNCHANGED <<now, otherMemories, sessionVars, managerVars, tracerVars, metricsVars,
                   coordVars, raceVars, contextVars, processVars>>

\* MemoryBank.store on the second bank
SecondBankStore ==
    /\ bankHistory.calls < MaxBankCalls
    /\ \E i \in 1..Len(BankStores), outcome \in PersistOutcomes :
         LET r == StoreThrough(otherMemories, BankStores[i], outcome)
         IN  /\ otherMemories' = r.memories
             /\ disk' = r.disk
             /\ everPersisted' = r.persisted
             /\ bankCall' = r.call
    /\ bankHistory' = [bankHistory EXCEPT !.calls = @ + 1]
    /\ UNCHANGED <<now, memories, sessionVars, managerVars, tracerVars, metricsVars,
                   coordVars, raceVars, contextVars, processVars>>

----------------------------------------------------------------------------
(* CoordinatorAgent: the pure parts *)

NoData == "None"
DataFrame == "DataFrame"

ReportTitle == "Business Analytics Report"

\* a planning step without the except clause: a failed model call leaves no plan
PlanWorkflowNoFallback(q, file, llm_ok) ==
    IF llm_ok
    THEN [needs_data |-> (file # PyNone) \/ Contains(Lower(q), <<"d", "a", "t", "a">>),
          perform_analysis |-> TRUE,
          generate_report |->
              \/ Contains(Lower(q), <<"r", "e", "p", "o", "r", "t">>)
              \/ Contains(Lower(q), <<"a", "n", "a", "l", "y", "z", "e">>),
          report_title |-> ReportTitle]
    ELSE EmptyDict

\* CoordinatorAgent._plan_workflow: the plan, given whether the model call
\* returned
PlanWorkflow(q, file, llm_ok) ==
    IF llm_ok
    THEN [needs_data |-> (file # PyNone) \/ Contains(Lower(q), <<"d", "a", "t", "a">>),
          perform_analysis |-> TRUE,
          generate_report |->
              \/ Contains(Lower(q), <<"r", "e", "p", "o", "r", "t">>)
              \/ Contains(Lower(q), <<"a", "n", "a", "l", "y", "z", "e">>),
          report_title |-> ReportTitle]
    ELSE [needs_data |-> file # PyNone,
          perform_analysis |-> TRUE,
          generate_report |-> TRUE,
          report_title |-> ReportTitle]

\* analyze line 125: is the loading step taken
WantsData(file, wf) == Truthy(file) \/ DictGet(wf, "needs_data", FALSE)

\* analyze line 126: data_file or workflow.get("data_file")
LoadPath(file, wf) == IF Truthy(file) THEN file ELSE DictGet(wf, "data_file", PyNone)

\* _load_data reaches a loader call (lines 231-234): a None path raises on
\* endswith and an unknown extension returns at once
LoaderCalled(path) ==
    /\ path # PyNone
    /\ \/ EndsWith(path, <<".", "c", "s", "v">>)
       \/ EndsWith(path, <<".", "j", "s", "o", "n">>)

\* what the loader can do with a path: return rows, report success=False (file
\* missing, parse error), or return data pd.DataFrame() rejects (line 240 raises)
LoaderOutcomes == {"rows", "not_loaded", "bad_frame"}

\* CoordinatorAgent._load_data: the frame, or None on every failure
LoadData(path, outcome) ==
    IF LoaderCalled(path) /\ outcome = "rows" THEN DataFrame ELSE NoData

\* what the model call inside analyze_data can do
AnalysisOutcomes == {"insights", "llm_fails"}

Insight == <<"u", "p">>

\* DataAnalystAgent.analyze_data: its result.  With data None, data.shape
\* raises inside the agent's own try and the result is a failure.
AnalyzeData(frame, q, outcome) ==
    IF frame # NoData /\ outcome = "insights"
    THEN [success |-> TRUE, query |-> q, insights |-> Insight, statistics |-> "describe"]
    ELSE [success |-> FALSE, error |-> "analysis error"]

\* what generate_report can do: write the file, format but fail to save
\* (filepath None), or fail on a model call
ReportOutcomes == {"saved", "unsaved", "llm_fails"}

ReportPath == <<"x", ".", "m", "d">>

\* ReportGeneratorAgent.generate_report: its result
GenerateReport(title, ar, outcome) ==
    IF outcome = "llm_fails"
    THEN [success |-> FALSE, error |-> "report error"]
    ELSE [success |-> TRUE,
          report |-> [success |-> TRUE, content |-> title, format |-> "markdown",
                      filepath |-> IF outcome = "saved" THEN ReportPath ELSE PyNone],
          sections |-> 2 + (IF "insights" \in DOMAIN ar THEN 1 ELSE 0)
                         + (IF "statistics" \in DOMAIN ar THEN 1 ELSE 0)]

\* a duration computed without asking whether the span has ended
DurationUnguarded(span) == span.end_time - span.start_time

\* TraceSpan.duration
Duration(span) ==
    IF span.end_time # NoTime /\ span.end_time # 0
    THEN span.end_time - span.start_time
    ELSE NoTime

\* summarize_span (tracer.py:67-73)
RECURSIVE SummarizeSpan(_, _)
SummarizeSpan(h, id) ==
    [name |-> h[id].name,
     duration |-> Duration(h[id]),
     metadata |-> h[id].metadata,
     children |-> [i \in 1..Len(h[id].children) |-> SummarizeSpan(h, h[id].children[i])]]

\* a summary of the latest root span alone
GetTraceSummaryLatest(T, enabled, t) ==
    IF ~enabled THEN EmptyDict
    ELSE [spans |-> [i \in 1..Min(1, Len(T.spans)) |-> SummarizeSpan(T.heap, Last(T.spans))],
          total_spans |-> Min(1, Len(T.spans)),
          timestamp |-> t]

\* Tracer.get_trace_summary
GetTraceSummary(T, enabled, t) ==
    IF ~enabled THEN EmptyDict
    ELSE [spans |-> [i \in 1..Len(T.spans) |-> SummarizeSpan(T.heap, T.spans[i])],
          total_spans |-> Len(T.spans),
          timestamp |-> t]

\* a response whose success repeats the analysis step's
CompileResponseStrict(q, sid, ar, rr, wf, trace, msummary) ==
    LET base == [success |-> DictGet(ar, "success", FALSE), query |-> q,
                 session_id |-> sid, workflow |-> wf,
                 trace |-> trace, metrics |-> msummary]
    IN  IF DictGet(rr, "success", FALSE)
        THEN DictSet(base, "report",
                 [filepath |-> DictGet(DictGet(rr, "report", EmptyDict), "filepath", PyNone),
                  format |-> DictGet(DictGet(rr, "report", EmptyDict), "format", PyNone)])
        ELSE base

\* CoordinatorAgent._compile_response
CompileResponse(q, sid, ar, rr, wf, trace, msummary) ==
    LET base == [success |-> TRUE, query |-> q, session_id |-> sid, workflow |-> wf,
                 trace |-> trace, metrics |-> msummary]
        withAnalysis ==
            IF DictGet(ar, "success", FALSE)
            THEN DictSet(base, "analysis",
                     [insights |-> DictGet(ar, "insights", PyNone),
                      statistics |-> DictGet(ar, "statistics", PyNone)])
            ELSE base
    IN  IF DictGet(rr, "success", FALSE)
        THEN DictSet(withAnalysis, "report",
                 [filepath |-> DictGet(DictGet(rr, "report", EmptyDict), "filepath", PyNone),
                  format |-> DictGet(DictGet(rr, "report", EmptyDict), "format", PyNone)])
        ELSE withAnalysis

\* str(response)
Repr(value) == <<"str", value>>

\* lines 125, 135, 151: the first step the plan asks for
AfterPlanning(file, wf) ==
    IF WantsData(file, wf) THEN "LOADING_DATA"
    ELSE IF DictGet(wf, "perform_analysis", FALSE) THEN "ANALYZING"
    ELSE IF DictGet(wf, "generate_report", FALSE) THEN "REPORTING"
    ELSE "COMPILING"

\* a load failure that does not end the request
AfterLoadingContinue(frame, wf) ==
    IF DictGet(wf, "perform_analysis", FALSE) THEN "ANALYZING"
    ELSE IF DictGet(wf, "generate_report", FALSE) THEN "REPORTING"
    ELSE "COMPILING"

\* lines 127-131 and the tests that follow: None ends the request
AfterLoading(frame, wf) ==
    IF frame = NoData THEN "ERROR"
    ELSE IF DictGet(wf, "perform_analysis", FALSE) THEN "ANALYZING"
    ELSE IF DictGet(wf, "generate_report", FALSE) THEN "REPORTING"
    ELSE "COMPILING"

\* an analysis step that is run again
AfterAnalyzingRetry(wf, raised) ==
    IF raised THEN "ANALYZING"
    ELSE IF DictGet(wf, "generate_report", FALSE) THEN "REPORTING"
    ELSE "COMPILING"

\* lines 141-151: an exception from store_insight goes to the except clause
AfterAnalyzing(wf, raised) ==
    IF raised THEN "ERROR"
    ELSE IF DictGet(wf, "generate_report", FALSE) THEN "REPORTING"
    ELSE "COMPILING"

\* the except clause of analyze (lines 184-190) lets the exception through
OnExceptionPropagate(M, e, t) ==
    [M |-> M, response |-> EmptyDict, escaped |-> TRUE]

\* the except clause of analyze (lines 184-190)
OnException(M, e, t) ==
    [M |-> Increment(M, metrics_enabled, "coordinator.analysis_errors", 1, t),
     response |-> [success |-> FALSE, error |-> e],
     escaped |-> FALSE]

----------------------------------------------------------------------------
(* CoordinatorAgent.analyze, step by step *)

\* self.session.id: the coordinator's session is the first its manager creates
SelfSessionId == 1

Queries == {<<"s", "u", "m">>, <<"D", "a", "t", "a">>,
            <<"a", "n", "a", "l", "y", "z", "e">>}

DataFiles == {PyNone, <<"a", ".", "c", "s", "v">>, <<"c", ".", "t", "x", "t">>}

\* the time a collaborator call may take
Elapsed == {d \in 0..1 : now + d <= MaxCoordTime}

SetTracer(T) ==
    /\ heap' = T.heap
    /\ spans' = T.spans
    /\ active_spans' = T.active_spans

\* the span a with-block is about to open is opened under the top of the stack
NoteOpened(T) ==
    openedUnder' = Append(openedUnder,
                          IF T.active_spans = <<>> THEN 0 ELSE Last(T.active_spans))

\* a child span that is opened and never closed
ChildSpanLeftOpen(T, name, metadata, t0, t1) == SpanEnter(T, name, metadata, t0)

\* a child span opened and closed around one collaborator call
ChildSpan(T, name, metadata, t0, t1) ==
    LET T1 == SpanEnter(T, name, metadata, t0)
    IN  SpanExit(T1, Len(T1.heap), t1, FALSE)

\* the with-block of analyze ends (return or handled exception): its span,
\* which sequential nesting leaves on top of the stack, is closed
CloseAnalyze(T, t, raised) == SpanExit(T, Last(T.active_spans), t, raised)

Terminal == {"DONE", "ERROR"}

\* the query of a request made earlier in the process, through another
\* coordinator
EarlierQuery == <<"s", "u", "m">>

\* the process-wide tracer and collector (tracer.py:82, metrics.py:100) after
\* one more coordinator was constructed and its analyze(EarlierQuery) returned:
\* the plan asks for no data and no report, the analysis fails for want of a
\* frame, and the response is compiled
EarlierRequest(P) ==
    LET M0 == Increment(P.M, TRUE, "coordinator.initializations", 1, 1)
        T1 == SpanEnter(P.T, "coordinator.analyze", [query |-> EarlierQuery], 1)
        M1 == Increment(M0, TRUE, "coordinator.analysis_requests", 1, 1)
        T2 == ChildSpan(T1, "data_analysis", [query |-> EarlierQuery], 1, 1)
        M2 == Increment(M1, TRUE, "data_analyst.analysis_requests", 1, 1)
        M3 == Increment(M2, TRUE, "data_analyst.analysis_errors", 1, 1)
        M4 == RecordTiming(M3, TRUE, "coordinator.analysis_duration", 0, 1)
        M5 == Increment(M4, TRUE, "coordinator.analysis_success", 1, 1)
    IN  [T |-> CloseAnalyze(T2, 1, FALSE),
         M |-> M5,
         openedUnder |-> P.openedUnder \o <<0, Len(P.T.heap) + 1>>]

\* the process after n such requests
RECURSIVE ProcessAfter(_)
ProcessAfter(n) ==
    IF n = 0
    THEN [T |-> TracerState(<<>>, <<>>, <<>>), M |-> Clear(EmptyDict), openedUnder |-> <<>>]
    ELSE EarlierRequest(ProcessAfter(n - 1))

\* lines 107-117: the span opens, the request is counted and the query is
\* appended to the session
CoordBegin ==
    /\ pc \in {"IDLE"} \cup Terminal
    /\ completed < earlier + MaxRequests
    /\ \E q \in Queries, f \in DataFiles :
         /\ query' = q
         /\ data_file' = f
         /\ SetTracer(SpanEnter(TracerNow, "coordinator.analyze", [query |-> q], now))
         /\ SetMetrics(Increment(MetricsNow, metrics_enabled,
                                 "coordinator.analysis_requests", 1, now))
         /\ sessions' = UpdateSession(sessions, SelfSessionId, "user", q)
    /\ NoteOpened(TracerNow)
    /\ summaries' = <<>>
    /\ start_time' = now
    /\ pc' = "PLANNING"
    /\ steps' = <<"PLANNING">>
    /\ calls' = <<>>
    /\ loadFailed' = FALSE
    /\ planFailed' = FALSE
    /\ atEntry' = [messages |-> GetSession(sessions, SelfSessionId).messages,
                   memories |-> memories, disk |-> disk,
                   active_spans |-> active_spans, nspans |-> Len(heap)]
    /\ workflow' = EmptyDict
    /\ data' = NoData
    /\ analysis_results' = EmptyDict
    /\ report_results' = EmptyDict
    /\ response' = EmptyDict
    /\ UNCHANGED <<now, escaped, completed, earlier, tracer_enabled, raisedIn,
                   metrics_enabled, incremented, recordingCalls,
                   max_sessions, nextId, lastEvicted, sessionVars, memoryVars>>
    /\ UNCHANGED sharingVars

\* line 120: _plan_workflow
CoordPlan ==
    /\ pc = "PLANNING"
    /\ \E llm_ok \in BOOLEAN, d \in Elapsed :
         /\ workflow' = PlanWorkflow(query, data_file, llm_ok)
         /\ planFailed' = ~llm_ok
         /\ now' = now + d
    /\ calls' = Append(calls, "language_model")
    /\ pc' = AfterPlanning(data_file, workflow')
    /\ steps' = Append(steps, pc')
    /\ UNCHANGED <<query, data_file, data, analysis_results, report_results, start_time,
                   response, escaped, completed, loadFailed, atEntry, earlier,
                   sessionVars, managerVars, tracerVars, metricsVars, memoryVars>>
    /\ UNCHANGED sharingVars

\* lines 124-131: _load_data, and the early return when it yields None
CoordLoadData ==
    /\ pc = "LOADING_DATA"
    /\ \E outcome \in LoaderOutcomes, d \in Elapsed :
         LET path == LoadPath(data_file, workflow)
             frame == LoadData(path, outcome)
             next == AfterLoading(frame, workflow)
             T1 == ChildSpan(TracerNow, "data_loading", [file |-> path], now, now + d)
         IN  /\ data' = frame
             /\ loadFailed' = (frame = NoData)
             /\ calls' = IF LoaderCalled(path) THEN Append(calls, "data_loader") ELSE calls
             /\ now' = now + d
             /\ pc' = next
             /\ IF next = "ERROR"
                THEN /\ response' = [success |-> FALSE, error |-> "Failed to load data"]
                     /\ SetTracer(CloseAnalyze(T1, now + d, FALSE))
                     /\ completed' = completed + 1
                ELSE /\ SetTracer(T1)
                     /\ UNCHANGED <<response, completed>>
    /\ NoteOpened(TracerNow)
    /\ steps' = Append(steps, pc')
    /\ UNCHANGED <<query, data_file, workflow, analysis_results, report_results,
                   start_time, escaped, atEntry, planFailed, earlier, tracer_enabled, raisedIn,
                   sessionVars, managerVars, metricsVars, memoryVars>>
    /\ UNCHANGED sharingVars

\* lines 134-147: analyze_data, then store_insight for a successful result
CoordAnalyzeData ==
    /\ pc = "ANALYZING"
    /\ \E outcome \in AnalysisOutcomes, persist \in PersistOutcomes, d \in Elapsed :
         LET t1 == now + d
             ar == AnalyzeData(data, query, outcome)
             T1 == ChildSpan(TracerNow, "data_analysis", [query |-> query], now, t1)
             M1 == Increment(MetricsNow, metrics_enabled,
                             "data_analyst.analysis_requests", 1, now)
             M2 == Increment(M1, metrics_enabled,
                             IF ar.success THEN "data_analyst.analysis_success"
                             ELSE "data_analyst.analysis_errors", 1, t1)
             stores == DictGet(ar, "success", FALSE) /\ "insights" \in DOMAIN ar
             mem1 == IF stores
                     THEN StoreInsight(memories, ar.insights,
                                       [query |-> query, session_id |-> SelfSessionId], t1)
                     ELSE memories
             raised == stores /\ SaveRaises(persist)
             next == AfterAnalyzing(workflow, raised)
             handled == OnException(M2, "mkdir failed", t1)
         IN  /\ analysis_results' = ar
             /\ memories' = mem1
             /\ disk' = IF stores THEN SaveMemories(mem1, disk, persist) ELSE disk
             /\ now' = t1
             /\ pc' = next
             /\ IF raised
                THEN /\ SetMetrics(handled.M)
                     /\ response' = handled.response
                     /\ escaped' = handled.escaped
                     /\ IF next = "ERROR"
                        THEN /\ SetTracer(CloseAnalyze(T1, t1, handled.escaped))
                             /\ completed' = completed + 1
                        ELSE /\ SetTracer(T1)
                             /\ UNCHANGED completed
                ELSE /\ SetMetrics(M2)
                     /\ SetTracer(T1)
                     /\ UNCHANGED <<response, escaped, completed>>
    /\ NoteOpened(TracerNow)
    /\ summaries' = <<>>
    /\ calls' = Append(calls, "analysis_agent")
    /\ steps' = Append(steps, pc')
    /\ UNCHANGED <<query, data_file, workflow, data, report_results, start_time,
                   loadFailed, atEntry, planFailed, earlier, tracer_enabled, raisedIn, metrics_enabled,
                   incremented, recordingCalls, bankCall, bankHistory, sessionVars, managerVars>>
    /\ UNCHANGED sharingVars

\* lines 150-158: generate_report
CoordGenerateReport ==
    /\ pc = "REPORTING"
    /\ \E outcome \in ReportOutcomes, d \in Elapsed :
         LET t1 == now + d
             title == DictGet(workflow, "report_title", ReportTitle)
             rr == GenerateReport(title, analysis_results, outcome)
             M1 == Increment(MetricsNow, metrics_enabled,
                             "report_generator.report_requests", 1, now)
         IN  /\ report_results' = rr
             /\ SetTracer(ChildSpan(TracerNow, "report_generation", [title |-> title],
                                    now, t1))
             /\ SetMetrics(Increment(M1, metrics_enabled,
                                     IF rr.success THEN "report_generator.report_success"
                                     ELSE "report_generator.report_errors", 1, t1))
             /\ now' = t1
    /\ NoteOpened(TracerNow)
    /\ summaries' = <<>>
    /\ calls' = Append(calls, "report_agent")
    /\ pc' = "COMPILING"
    /\ steps' = Append(steps, pc')
    /\ UNCHANGED <<query, data_file, workflow, data, analysis_results, start_time,
                   response, escaped, completed, loadFailed, atEntry, planFailed, earlier,
                   tracer_enabled, raisedIn, metrics_enabled, incremented, recordingCalls,
                   sessionVars, managerVars, memoryVars>>
    /\ UNCHANGED sharingVars

\* lines 161-182: the response is compiled and appended to the session, the
\* duration and the success are recorded, and analyze returns
CoordCompile ==
    /\ pc = "COMPILING"
    /\ LET resp == CompileResponse(query, SelfSessionId, analysis_results,
                                   report_results, workflow,
                                   GetTraceSummary(TracerNow, tracer_enabled, now),
                                   GetSummary(MetricsNow, metrics_enabled, now))
           M1 == RecordTiming(MetricsNow, metrics_enabled,
                              "coordinator.analysis_duration", now - start_time, now)
       IN  /\ response' = resp
           /\ sessions' = UpdateSession(sessions, SelfSessionId, "assistant", Repr(resp))
           /\ SetMetrics(Increment(M1, metrics_enabled,
                                   "coordinator.analysis_success", 1, now))
    /\ SetTracer(CloseAnalyze(TracerNow, now, FALSE))
    /\ summaries' = <<>>
    /\ completed' = completed + 1
    /\ pc' = "DONE"
    /\ steps' = Append(steps, pc')
    /\ UNCHANGED <<now, query, data_file, workflow, data, analysis_results,
                   report_results, start_time, escaped, calls, loadFailed, atEntry, planFailed, earlier,
                   tracer_enabled, openedUnder, raisedIn, metrics_enabled, incremented, recordingCalls,
                   max_sessions, nextId, lastEvicted, sessionVars, memoryVars>>
    /\ UNCHANGED sharingVars

----------------------------------------------------------------------------
(* Initial states and specifications *)

InitSessionIdle ==
    /\ messages = <<>>
    /\ nAdded = 0
    /\ compacted = FALSE
    /\ sessionCall = SessionCall("none", 0, <<>>, <<>>)

InitManagerIdle ==
    /\ max_sessions = DefaultMaxSessions
    /\ sessions = <<>>
    /\ nextId = 1
    /\ lastEvicted = {}

\* the process-wide Tracer() before any span
InitTracerIdle ==
    /\ tracer_enabled = TRUE
    /\ heap = <<>>
    /\ spans = <<>>
    /\ active_spans = <<>>
    /\ openedUnder = <<>>
    /\ raisedIn = {}

\* the process-wide MetricsCollector() before any recording
InitMetricsIdle ==
    /\ metrics_enabled = TRUE
    /\ metrics = <<>>
    /\ counters = EmptyDict
    /\ timers = EmptyDict
    /\ summaries = <<>>
    /\ incremented = <<>>
    /\ recordingCalls = {}

\* no MemoryBank constructed and no backing file
InitMemoryIdle ==
    /\ memories = <<>>
    /\ disk = NoFile
    /\ bankCall = [op |-> "init", file |-> NoFile]
    /\ bankHistory = [calls |-> 0, loaded |-> <<>>, seconds |-> {}, insights |-> 0]

\* no thread is inside a call on a shared object
InitSharingIdle ==
    /\ threads = [t \in Threads |-> IdleThread]
    /\ overlapped = FALSE
    /\ contexts = [c \in Contexts |-> <<>>]
    /\ openedBy = <<>>
    /\ crossed = FALSE
    /\ otherMemories = <<>>
    /\ everPersisted = {}
    /\ coordinators = <<>>
    /\ constructed = [session_id |-> NoSessionId, existing |-> {}, raised |-> FALSE]

\* no request in progress; n analyze calls have returned in the process
InitCoordAfter(n) ==
    /\ pc = "IDLE"
    /\ query = PyNone
    /\ data_file = PyNone
    /\ workflow = EmptyDict
    /\ data = NoData
    /\ analysis_results = EmptyDict
    /\ report_results = EmptyDict
    /\ start_time = NoTime
    /\ response = EmptyDict
    /\ escaped = FALSE
    /\ calls = <<>>
    /\ steps = <<>>
    /\ completed = n
    /\ loadFailed = FALSE
    /\ atEntry = [messages |-> <<>>, memories |-> <<>>, disk |-> NoFile,
                  active_spans |-> <<>>, nspans |-> 0]
    /\ planFailed = FALSE
    /\ earlier = n

\* no request in progress and none made
InitCoordIdle == InitCoordAfter(0)

\* a fresh Session
InitSession ==
    /\ now = 1
    /\ InitSharingIdle
    /\ InitSessionIdle
    /\ InitManagerIdle
    /\ InitTracerIdle
    /\ InitMetricsIdle
    /\ InitMemoryIdle
    /\ InitCoordIdle

NextSession ==
    \/ SessionAddMessage
    \/ SessionCompactContext
    \/ SessionGetContext

SpecSession == InitSession /\ [][NextSession]_vars

\* SessionManager(max_sessions) for any max_sessions >= 0 within the bound
InitSessionManager ==
    /\ now = 1
    /\ InitSharingIdle
    /\ InitSessionIdle
    /\ max_sessions \in 0..MaxMaxSessions
    /\ sessions = <<>>
    /\ nextId = 1
    /\ lastEvicted = {}
    /\ InitTracerIdle
    /\ InitMetricsIdle
    /\ InitMemoryIdle
    /\ InitCoordIdle

NextSessionManager ==
    \/ ManagerCreateSession
    \/ ManagerDeleteSession
    \/ ManagerUpdateSession
    \/ ManagerTick

SpecSessionManager == InitSessionManager /\ [][NextSessionManager]_vars

\* Tracer(enabled) used from one sequential execution context
InitTracer ==
    /\ now = 1
    /\ InitSharingIdle
    /\ InitSessionIdle
    /\ InitManagerIdle
    /\ tracer_enabled \in BOOLEAN
    /\ heap = <<>>
    /\ spans = <<>>
    /\ active_spans = <<>>
    /\ openedUnder = <<>>
    /\ raisedIn = {}
    /\ InitMetricsIdle
    /\ InitMemoryIdle
    /\ InitCoordIdle

NextTracer ==
    \/ TracerSpanEnter
    \/ TracerSpanExit
    \/ TracerTick

SpecTracer == InitTracer /\ [][NextTracer]_vars

\* the process-wide tracer, enabled and empty, and two contexts outside any
\* with-block
InitSharedTracer ==
    /\ now = 1
    /\ InitSharingIdle
    /\ InitSessionIdle
    /\ InitManagerIdle
    /\ InitTracerIdle
    /\ InitMetricsIdle
    /\ InitMemoryIdle
    /\ InitCoordIdle

NextSharedTracer ==
    \/ ContextSpanEnter
    \/ ContextSpanExit
    \/ ContextTick

SpecSharedTracer == InitSharedTracer /\ [][NextSharedTracer]_vars

\* MetricsCollector(enabled)
InitMetrics ==
    /\ now = 1
    /\ InitSharingIdle
    /\ InitSessionIdle
    /\ InitManagerIdle
    /\ InitTracerIdle
    /\ metrics_enabled \in BOOLEAN
    /\ metrics = <<>>
    /\ counters = EmptyDict
    /\ timers = EmptyDict
    /\ summaries = <<>>
    /\ incremented = <<>>
    /\ recordingCalls = {}
    /\ InitMemoryIdle
    /\ InitCoordIdle

NextMetrics ==
    \/ MetricsIncrement
    \/ MetricsRecordTiming
    \/ MetricsGauge
    \/ MetricsClear
    \/ MetricsGetSummary
    \/ MetricsTick

SpecMetrics == InitMetrics /\ [][NextMetrics]_vars

\* the process-wide collector, enabled and empty, and two threads outside it
InitSharedMetrics ==
    /\ now = 1
    /\ InitSharingIdle
    /\ InitSessionIdle
    /\ InitManagerIdle
    /\ InitTracerIdle
    /\ InitMetricsIdle
    /\ InitMemoryIdle
    /\ InitCoordIdle

NextSharedMetrics ==
    \/ ThreadIncrementLoad
    \/ ThreadIncrementStore
    \/ ThreadIncrementLog

SpecSharedMetrics == InitSharedMetrics /\ [][NextSharedMetrics]_vars

\* MemoryBank(storage_path) constructed on whatever the file holds
InitMemoryBank ==
    /\ now = 1
    /\ InitSharingIdle
    /\ InitSessionIdle
    /\ InitManagerIdle
    /\ InitTracerIdle
    /\ InitMetricsIdle
    /\ \E i \in 1..Len(InitialFiles) : disk = InitialFiles[i]
    /\ memories = LoadMemories(disk)
    /\ bankCall = [op |-> "init", file |-> disk]
    /\ bankHistory = [calls |-> 0, loaded |-> memories, seconds |-> {}, insights |-> 0]
    /\ InitCoordIdle

NextMemoryBank ==
    \/ BankStore
    \/ BankStoreInsight
    \/ BankSearch
    \/ BankReload
    \/ BankTick

SpecMemoryBank == InitMemoryBank /\ [][NextMemoryBank]_vars

\* two banks constructed on a path that holds no file yet
InitTwoBanks ==
    /\ now = 1
    /\ InitSharingIdle
    /\ InitSessionIdle
    /\ InitManagerIdle
    /\ InitTracerIdle
    /\ InitMetricsIdle
    /\ disk = NoFile
    /\ memories = LoadMemories(disk)
    /\ otherMemories = LoadMemories(disk)
    /\ bankCall = [op |-> "init", file |-> disk]
    /\ bankHistory = [calls |-> 0, loaded |-> <<>>, seconds |-> {}, insights |-> 0]
    /\ InitCoordIdle

NextTwoBanks ==
    \/ FirstBankStore
    \/ SecondBankStore

SpecTwoBanks == InitTwoBanks /\ [][NextTwoBanks]_vars

\* the ids of the sessions the coordinators of the process hold
ProcessSessionIds ==
    UNION {SessionIds(coordinators[i].session_manager) : i \in 1..Len(coordinators)}

\* CoordinatorAgent(session_id=..., user_id=..., api_key=...)
ConstructCoordinator ==
    /\ nextId <= MaxCreates
    /\ \E session_id \in {NoSessionId} \cup (1..MaxCreates), user_id \in Users :
         LET c == CoordinatorInit(session_id, user_id, nextId, LoadMemories(disk), now)
         IN  /\ constructed' = [session_id |-> session_id,
                                existing |-> ProcessSessionIds,
                                raised |-> c.raised]
             /\ IF c.raised
                THEN UNCHANGED <<coordinators, nextId, metrics, counters, timers>>
                ELSE /\ coordinators' = Append(coordinators,
                            [session_manager |-> c.session_manager,
                             session |-> c.session,
                             memory_bank |-> c.memory_bank])
                     /\ nextId' = IF session_id = NoSessionId THEN nextId + 1 ELSE nextId
                     /\ SetMetrics(Increment(MetricsNow, metrics_enabled,
                                             "coordinator.initializations", 1, now))
    /\ UNCHANGED <<now, max_sessions, sessions, lastEvicted, metrics_enabled, summaries,
                   incremented, recordingCalls, sessionVars, tracerVars, memoryVars,
                   coordVars, raceVars, contextVars, twinVars>>

\* self.session_manager.update_session(self.session.id, "user", ...) by one of
\* the coordinators
CoordinatorUpdateSession ==
    /\ \E i \in 1..Len(coordinators) :
         LET c == coordinators[i]
         IN  /\ Len(GetSession(c.session_manager, c.session).messages) < MaxMessages
             /\ coordinators' = [coordinators EXCEPT ![i].session_manager =
                                    UpdateSession(@, c.session, "user", <<"h", "i">>)]
    /\ UNCHANGED <<now, constructed, sessionVars, managerVars, tracerVars, metricsVars,
                   memoryVars, coordVars, raceVars, contextVars, twinVars>>

\* a process in which no coordinator has been constructed yet
InitProcess ==
    /\ now = 1
    /\ InitSharingIdle
    /\ InitSessionIdle
    /\ InitManagerIdle
    /\ InitTracerIdle
    /\ InitMetricsIdle
    /\ InitMemoryIdle
    /\ InitCoordIdle

NextProcess ==
    \/ ConstructCoordinator
    \/ CoordinatorUpdateSession

SpecProcess == InitProcess /\ [][NextProcess]_vars

\* a fresh process after CoordinatorAgent(user_id=...) has been constructed:
\* the process-wide tracer and collector, the coordinator's own SessionManager
\* holding its one session, an empty MemoryBank, one initialization counted
\* a coordinator just constructed in a process in which n analyze calls have
\* been made before, through other coordinators
InitCoordinatorAfter(n) ==
    /\ now = 1
    /\ InitSharingIdle
    /\ InitSessionIdle
    /\ max_sessions = DefaultMaxSessions
    /\ \E user_id \in {"demo_user"} :
           sessions = CreateSession(<<>>, DefaultMaxSessions, SelfSessionId, user_id, 1)
    /\ nextId = SelfSessionId + 1
    /\ lastEvicted = {}
    /\ tracer_enabled = TRUE
    /\ metrics_enabled = TRUE
    /\ LET P == ProcessAfter(n)
           M == Increment(P.M, TRUE, "coordinator.initializations", 1, 1)
       IN  /\ heap = P.T.heap
           /\ spans = P.T.spans
           /\ active_spans = P.T.active_spans
           /\ openedUnder = P.openedUnder
           /\ metrics = M.metrics
           /\ counters = M.counters
           /\ timers = M.timers
           /\ InitCoordAfter(n)
    /\ raisedIn = {}
    /\ summaries = <<>>
    /\ incremented = <<>>
    /\ recordingCalls = {}
    /\ InitMemoryIdle

\* the first coordinator of a fresh process
InitCoordinator == InitCoordinatorAfter(0)

\* a coordinator constructed after earlier requests of the same process
InitCoordinatorLater == InitCoordinatorAfter(MaxEarlier)

NextCoordinator ==
    \/ CoordBegin
    \/ CoordPlan
    \/ CoordLoadData
    \/ CoordAnalyzeData
    \/ CoordGenerateReport
    \/ CoordCompile

SpecCoordinator == InitCoordinator /\ [][NextCoordinator]_vars

SpecCoordinatorLater == InitCoordinatorLater /\ [][NextCoordinator]_vars

----------------------------------------------------------------------------
(* Claims *)

Requests == DictGet(counters, "coordinator.analysis_requests", 0)
Successes == DictGet(counters, "coordinator.analysis_success", 0)
Errors == DictGet(counters, "coordinator.analysis_errors", 0)
Durations == DictGet(timers, "coordinator.analysis_duration", <<>>)

\* C1: between requests, after n analyze calls have returned, the request
\* counter is n, the success and error counters add up to n, and the duration
\* timer holds n samples.
C1_CountedOncePerRequest ==
    pc \in {"IDLE"} \cup Terminal =>
        /\ Requests = completed
        /\ Successes + Errors = completed
        /\ Len(Durations) = completed

SelfMessages == GetSession(sessions, SelfSessionId).messages

\* C2: when analyze has returned, the session history is the history at entry
\* followed by (user, query) and then (assistant, str(response)).
C2_UserThenAssistant ==
    pc \in Terminal =>
        LET n == Len(atEntry.messages)
        IN  /\ Len(SelfMessages) = n + 2
            /\ SubSeq(SelfMessages, 1, n) = atEntry.messages
            /\ SelfMessages[n + 1] = Message("user", query)
            /\ SelfMessages[n + 2].role = "assistant"
            /\ SelfMessages[n + 2].content = Repr(response)

\* C3: the history never exceeds the capacity, it always holds the most recently
\* added messages in the order they were added, and without compaction it holds
\* all of them up to the capacity: exactly the latest 100 once more than 100
\* have been added.
C3_BoundedHistory ==
    /\ Len(messages) <= Capacity
    /\ \A i \in 1..Len(messages) :
           messages[i] = NthMessage(nAdded - Len(messages) + i)
    /\ ~compacted => Len(messages) = Min(nAdded, Capacity)

C3_Witness ==
    /\ ~compacted
    /\ nAdded > Capacity
    /\ Len(messages) = Capacity
    /\ messages[1] = NthMessage(nAdded - Capacity + 1)

\* C4: the number of registered sessions never exceeds max_sessions, and every
\* session the latest create_session evicted was created no later than every
\* session still registered.
C4_EvictsOldestCreated ==
    /\ Len(sessions) <= max_sessions
    /\ \A e \in lastEvicted : \A i \in 1..Len(sessions) :
           e.created_at <= sessions[i].created_at

\* an accessed session was evicted while a later-created, never accessed one stays
C4_Witness ==
    \E e \in lastEvicted : \E i \in 1..Len(sessions) :
        /\ e.messages # <<>>
        /\ sessions[i].messages = <<>>
        /\ e.created_at < sessions[i].created_at

\* C5: no exception leaves analyze, and whenever it has returned the response
\* has a boolean success, with an error when success is false.
C5_AlwaysStructured ==
    /\ ~escaped
    /\ pc \in Terminal =>
           /\ "success" \in DOMAIN response
           /\ response.success \in BOOLEAN
           /\ ~response.success => "error" \in DOMAIN response

\* the insight store raised after a successful analysis and analyze returned
C5_Witness ==
    /\ pc = "ERROR"
    /\ ~loadFailed
    /\ DictGet(analysis_results, "success", FALSE)
    /\ response.success = FALSE
    /\ "error" \in DOMAIN response

AnalysisFailedReportWanted ==
    /\ DictGet(workflow, "generate_report", FALSE)
    /\ "analysis_agent" \in Range(calls)
    /\ ~DictGet(analysis_results, "success", FALSE)

\* C6: once the analysis step has failed for a plan that wants a report, the
\* request goes on to the report step, and if the report succeeds the response
\* has success true, no analysis key and the report agent's filepath.
C6_ReportAfterFailedAnalysis ==
    AnalysisFailedReportWanted =>
        /\ pc \in {"REPORTING", "COMPILING", "DONE"}
        /\ pc # "REPORTING" => "report_agent" \in Range(calls)
        /\ (pc = "DONE" /\ DictGet(report_results, "success", FALSE)) =>
               /\ response.success = TRUE
               /\ "analysis" \notin DOMAIN response
               /\ "report" \in DOMAIN response
               /\ response.report.filepath = report_results.report.filepath

C6_Witness ==
    /\ AnalysisFailedReportWanted
    /\ pc = "DONE"
    /\ DictGet(report_results, "success", FALSE)
    /\ response.report.filepath = ReportPath

StepRank(step) ==
    CASE step = "PLANNING" -> 1
      [] step = "LOADING_DATA" -> 2
      [] step = "ANALYZING" -> 3
      [] step = "REPORTING" -> 4
      [] step = "COMPILING" -> 5
      [] OTHER -> 6

CallRank(callee) ==
    CASE callee = "language_model" -> 1
      [] callee = "data_loader" -> 2
      [] callee = "analysis_agent" -> 3
      [] OTHER -> 4

\* C7: the steps of a request are taken in the order PLANNING, LOADING_DATA,
\* ANALYZING, REPORTING, COMPILING, DONE or ERROR, each at most once, DONE only
\* from COMPILING, and each collaborator is invoked at most once, in that order.
C7_StepsInOrder ==
    /\ \A i, j \in 1..Len(steps) : i < j => StepRank(steps[i]) < StepRank(steps[j])
    /\ \A i, j \in 1..Len(calls) : i < j => CallRank(calls[i]) < CallRank(calls[j])
    /\ steps # <<>> => Last(steps) = pc /\ steps[1] = "PLANNING"
    /\ pc = "DONE" => Len(steps) >= 2 /\ steps[Len(steps) - 1] = "COMPILING"

C7_Witness ==
    /\ pc = "DONE"
    /\ steps = <<"PLANNING", "LOADING_DATA", "ANALYZING", "REPORTING", "COMPILING", "DONE">>
    /\ calls = <<"language_model", "data_loader", "analysis_agent", "report_agent">>

\* C8: once the loading step of a request has failed, the request has ended with
\* {success: false, error}, neither the analysis nor the report agent has been
\* invoked, and the MemoryBank is as it was when the request started.
C8_LoadFailureEndsRequest ==
    loadFailed =>
        /\ pc = "ERROR"
        /\ response = [success |-> FALSE, error |-> "Failed to load data"]
        /\ "analysis_agent" \notin Range(calls)
        /\ "report_agent" \notin Range(calls)
        /\ memories = atEntry.memories
        /\ disk = atEntry.disk

\* the plan needs data, no file was passed, and the request ended in the error
C8_Witness ==
    /\ loadFailed
    /\ pc = "ERROR"
    /\ data_file = PyNone
    /\ workflow.needs_data

Closed(s) == heap[s].end_time # NoTime

StrictlyIncreasing(seq) == \A i, j \in 1..Len(seq) : i < j => seq[i] < seq[j]

\* C9: every closed span ends no earlier than it started and is off the
\* open-span stack; a span opened while another was open is a child of the
\* innermost span then open and of no other, one opened with none open is a
\* root; roots and children are listed in the order they were opened; and a
\* span whose wrapped operation raised is closed and off the stack.
C9_SpanNesting ==
    /\ Len(openedUnder) = Len(heap)
    /\ \A s \in 1..Len(heap) :
           /\ Closed(s) => heap[s].end_time >= heap[s].start_time
           /\ Closed(s) => s \notin Range(active_spans)
           /\ s \in Range(spans) <=> openedUnder[s] = 0
           /\ \A parent \in 1..Len(heap) :
                  s \in Range(heap[parent].children) <=> openedUnder[s] = parent
           /\ StrictlyIncreasing(heap[s].children)
    /\ StrictlyIncreasing(spans)
    /\ \A s \in raisedIn : Closed(s) /\ s \notin Range(active_spans)

\* a second child, whose body raised, closed after its start
C9_Witness ==
    \E s \in raisedIn :
        /\ openedUnder[s] # 0
        /\ Len(heap[openedUnder[s]].children) = 2
        /\ heap[openedUnder[s]].children[2] = s
        /\ heap[s].end_time > heap[s].start_time
        /\ s \notin Range(active_spans)

\* C10 as stated: two get_summary calls with no recording or clear call in
\* between return identical structures.
C10_IdenticalSummaries ==
    Len(summaries) = 2 => summaries[1] = summaries[2]

SameButTimestamp(a, b) ==
    /\ DOMAIN a = DOMAIN b
    /\ \A k \in (DOMAIN a) \ {"timestamp"} : a[k] = b[k]

\* C10 amended: a get_summary call changes nothing in the collector, and two
\* calls with no recording or clear call in between return structures with the
\* same keys that agree on everything but the timestamp.
C10_SummariesAgreeButTimestamp ==
    [][(summaries' # summaries /\ summaries' # <<>>) =>
           /\ UNCHANGED <<metrics_enabled, metrics, counters, timers>>
           /\ Len(summaries') = 2 => SameButTimestamp(summaries'[1], summaries'[2])]_vars

\* two summaries of a collector with a counter and a timer, taken at different times
C10_Witness ==
    /\ Len(summaries) = 2
    /\ metrics_enabled
    /\ counters # EmptyDict
    /\ timers # EmptyDict
    /\ summaries[1].timestamp # summaries[2].timestamp
    /\ summaries[1].timers = summaries[2].timers

\* the sum of the values passed to increment for name in a list of calls
RECURSIVE PassedFor(_, _)
PassedFor(name, passed) ==
    IF passed = <<>> THEN 0
    ELSE PassedFor(name, Front(passed))
         + (IF Last(passed).name = name THEN Last(passed).value ELSE 0)

IsCountRecord(m) == Len(m.name) = 2 /\ m.name[2] = ".count"

\* C11: on an enabled collector every counter equals the sum of the values
\* passed to increment for its name since construction or the last clear, a
\* name never incremented has no counter, and the log holds one <name>.count
\* record per increment, in call order, whose value is the counter right after
\* that increment.
C11_CountersAreSums ==
    metrics_enabled =>
        /\ \A name \in CounterNames \cup DOMAIN counters :
               DictGet(counters, name, 0) = PassedFor(name, incremented)
        /\ DOMAIN counters = {incremented[i].name : i \in 1..Len(incremented)}
        /\ LET records == SelectSeq(metrics, IsCountRecord)
           IN  /\ Len(records) = Len(incremented)
               /\ \A i \in 1..Len(records) :
                      /\ records[i].name = <<incremented[i].name, ".count">>
                      /\ records[i].value =
                             PassedFor(incremented[i].name, SubSeq(incremented, 1, i))

\* increment(name, 2) twice and one increment of another name
C11_Witness ==
    /\ metrics_enabled
    /\ Len(incremented) = 3
    /\ incremented[1] = incremented[2]
    /\ incremented[1].value = 2
    /\ incremented[3].name # incremented[1].name
    /\ counters[incremented[1].name] = 4

\* the last n items of a list, n <= Len(seq)
Newest(seq, n) == SubSeq(seq, Len(seq) - n + 1, Len(seq))

\* C19: get_context(max_messages) returns the last min(L, max_messages)
\* messages of the history, oldest first, as role/content pairs, and leaves the
\* history as it was.
C19_ContextIsNewest ==
    sessionCall.op = "get_context" =>
        LET n == Min(Len(sessionCall.before), sessionCall.arg)
        IN  /\ Len(sessionCall.result) = n
            /\ sessionCall.result = Newest(sessionCall.before, n)
            /\ messages = sessionCall.before

\* C20: after compact_context(keep_recent) the history is the last
\* min(L, keep_recent) messages of the previous history, in the same order,
\* and compacting it again changes nothing.
C20_CompactKeepsNewest ==
    sessionCall.op = "compact_context" =>
        LET n == Min(Len(sessionCall.before), sessionCall.arg)
        IN  /\ Len(messages) = n
            /\ messages = Newest(sessionCall.before, n)
            /\ CompactContext(messages, sessionCall.arg) = messages

\* the latest store call's backing document was written in full: the directory
\* was created, the file opened and every entry serialized
Persisted == bankCall.outcome = "saved" /\ AllSerializable(memories)

\* C12 as stated: after store(key, value, ...) retrieve(key) returns value, and
\* so does a MemoryBank constructed afterwards on the same file, which also
\* returns the value of every other key of the bank.
C12_ReadBackAfterReload ==
    bankCall.op = "store" =>
        /\ Retrieve(memories, bankCall.key) = bankCall.value
        /\ \A k \in MemoryKeys(memories) :
               Retrieve(LoadMemories(disk), k) = Retrieve(memories, k)

\* C12 amended: after store(key, value, ...), whether it returned or raised,
\* retrieve(key) returns value; and when the backing document was written in
\* full, a MemoryBank constructed afterwards on the same file holds exactly the
\* keys of the bank and returns the same value for each of them.
C12_ReadBackWhenPersisted ==
    bankCall.op = "store" =>
        /\ Retrieve(memories, bankCall.key) = bankCall.value
        /\ Persisted =>
               /\ MemoryKeys(LoadMemories(disk)) = MemoryKeys(memories)
               /\ \A k \in MemoryKeys(memories) :
                      Retrieve(LoadMemories(disk), k) = Retrieve(memories, k)

\* a second key was stored and written; its metadata and that of the first
\* come back from the file, the first key's value with them
C12_Witness ==
    /\ bankCall.op = "store"
    /\ Persisted
    /\ Len(memories) = 2
    /\ bankCall.key = memories[2].key
    /\ Retrieve(LoadMemories(disk), memories[1].key) = memories[1].value
    /\ Retrieve(LoadMemories(disk), bankCall.key) = bankCall.value

\* C13: store never raises to its caller, whatever happens to the write of the
\* backing document, and the entry of the key is the one just stored.
C13_StoreNeverRaises ==
    bankCall.op = "store" =>
        /\ ~bankCall.raised
        /\ Retrieve(memories, bankCall.key) = bankCall.value

\* every entry of the file decodes
WellFormed(file) ==
    /\ file.state = "written"
    /\ \A i \in 1..Len(file.doc) : Decodable(file.doc[i])

\* C14: a MemoryBank constructed on a file that is missing, is not valid JSON
\* or holds an entry that cannot be decoded starts with no entries.
C14_BadStorageStartsEmpty ==
    (bankCall.op = "init" /\ ~WellFormed(bankCall.file)) => memories = <<>>

KeysOf(entries) == [i \in 1..Len(entries) |-> entries[i].key]

\* the entries search is specified to return: a category that is given (not
\* None) must be equal, a query that is given must occur in the value, both
\* compared in lower case
Specified(mem, category, q) ==
    LET Matches(entry) ==
            /\ category # NoCategory => entry.category = category
            /\ q # PyNone => Contains(Lower(entry.value), Lower(q))
    IN  SelectSeq(mem, Matches)

\* C15: search(category, query) returns, in the order of the mapping, exactly
\* the entries that match the category when one is given and contain the query
\* when one is given, the empty string counting as given.
C15_SearchFilters ==
    bankCall.op = "search" =>
        KeysOf(bankCall.result) =
            KeysOf(Specified(memories, bankCall.category, bankCall.query))

IsInsightKey(key) ==
    /\ Len(key) > Len(InsightPrefix)
    /\ SubSeq(key, 1, Len(InsightPrefix)) = InsightPrefix

InsightEntries(mem) == {i \in 1..Len(mem) : IsInsightKey(mem[i].key)}

\* C18: store_insight keys its entry by the second of the call, the entry of
\* that key holds the insight of the latest call in that second, and on a bank
\* that started empty the number of insight entries is the number of distinct
\* seconds in which store_insight was called.
C18_OneInsightPerSecond ==
    /\ bankCall.op = "store_insight" =>
           /\ bankCall.key = InsightPrefix \o Str(bankCall.at \div TicksPerSecond)
           /\ Retrieve(memories, bankCall.key) = bankCall.value
    /\ bankHistory.loaded = <<>> =>
           Cardinality(InsightEntries(memories)) = Cardinality(bankHistory.seconds)

\* two store_insight calls at different times of one second left one entry,
\* which holds the second insight
C18_Witness ==
    /\ bankCall.op = "store_insight"
    /\ bankHistory.loaded = <<>>
    /\ bankHistory.insights = 2
    /\ Cardinality(bankHistory.seconds) = 1
    /\ Cardinality(InsightEntries(memories)) = 1
    /\ memories[1].timestamp = bankCall.at
    /\ memories[1].value = bankCall.value

\* C16: when the planning model call has failed, the plan is the fixed one
\* (data needed exactly when a file was passed, analysis and report wanted, the
\* default title), the request goes on to the step that plan asks for, a
\* request that completes reports success with that plan, and a request that
\* ends in error does so for a failed load or a failed insight store only.
C16_FallbackPlan ==
    planFailed =>
        /\ workflow = [needs_data |-> data_file # PyNone,
                       perform_analysis |-> TRUE,
                       generate_report |-> TRUE,
                       report_title |-> "Business Analytics Report"]
        /\ steps[2] = (IF data_file # PyNone THEN "LOADING_DATA" ELSE "ANALYZING")
        /\ pc = "DONE" =>
               /\ response.success = TRUE
               /\ response.workflow = workflow
               /\ "error" \notin DOMAIN response
               /\ "report_agent" \in Range(calls)
        /\ pc = "ERROR" =>
               \/ loadFailed
               \/ DictGet(analysis_results, "success", FALSE)

\* planning failed for a query that asks for no report and no data; the
\* request completed with the report the fixed plan asks for
C16_Witness ==
    /\ planFailed
    /\ pc = "DONE"
    /\ data_file = PyNone
    /\ query = <<"s", "u", "m">>
    /\ "report" \in DOMAIN response
    /\ response.success = TRUE

AnalysisGaveInsight ==
    /\ "analysis_agent" \in Range(calls)
    /\ DictGet(analysis_results, "success", FALSE)
    /\ "insights" \in DOMAIN analysis_results

\* C17: during and after a request the MemoryBank differs from what it held at
\* entry if and only if the analysis step ran and succeeded with insights, and
\* then by one entry of category "insight" under an insight key, whose value is
\* the insight text and whose metadata is the request's query and the
\* coordinator's session id; every other entry is one held at entry.
C17_InsightIffAnalysisSucceeded ==
    pc # "IDLE" =>
        IF AnalysisGaveInsight
        THEN \E i \in 1..Len(memories) :
                 /\ memories[i].category = "insight"
                 /\ IsInsightKey(memories[i].key)
                 /\ memories[i].value = analysis_results.insights
                 /\ memories[i].metadata = [query |-> query, session_id |-> SelfSessionId]
                 /\ \A j \in 1..Len(memories) :
                        j # i => memories[j] \in Range(atEntry.memories)
                 /\ Len(memories) - Len(atEntry.memories) \in {0, 1}
        ELSE memories = atEntry.memories

\* a completed request whose analysis succeeded added its insight
C17_Witness ==
    /\ pc = "DONE"
    /\ AnalysisGaveInsight
    /\ Len(memories) = Len(atEntry.memories) + 1
    /\ Last(memories).value = Insight

\* C21: the summary of a span reports no duration exactly when the span is
\* still open (no end_time, on the open-span stack) and end_time - start_time
\* when it is closed; the trace in a compiled response reports no duration for
\* the request's own coordinator.analyze span, and a duration for each of its
\* child spans and for the root spans of earlier requests.
C21_OpenSpansHaveNoDuration ==
    /\ \A s \in 1..Len(heap) :
           LET reported == SummarizeSpan(heap, s).duration
           IN  /\ reported = NoTime <=> ~Closed(s)
               /\ reported = NoTime <=> s \in Range(active_spans)
               /\ Closed(s) => reported = heap[s].end_time - heap[s].start_time
    /\ pc = "DONE" =>
           LET roots == response.trace.spans
               own == Last(roots)
           IN  /\ own.name = "coordinator.analyze"
               /\ own.metadata = [query |-> query]
               /\ own.duration = NoTime
               /\ own.children # <<>>
               /\ \A i \in 1..Len(own.children) : own.children[i].duration >= 0
               /\ \A i \in 1..(Len(roots) - 1) : roots[i].duration >= 0

\* a compiled response whose own span has no duration and whose three child
\* spans have one, one of them positive
C21_Witness ==
    /\ pc = "DONE"
    /\ Last(response.trace.spans).duration = NoTime
    /\ Len(Last(response.trace.spans).children) = 3
    /\ \E i \in 1..3 : Last(response.trace.spans).children[i].duration > 0
    /\ \E i \in 1..3 : Last(response.trace.spans).children[i].duration = 0

\* C26: when analyze has returned, by a normal return, the early return on a
\* failed load or the exception handler, the open-span stack is what it was at
\* entry and every span opened since then is closed; while the request runs,
\* between its steps, only its own span is on top of the stack at entry.
C26_SpansClosedOnReturn ==
    /\ pc \in Terminal =>
           /\ active_spans = atEntry.active_spans
           /\ Len(heap) > atEntry.nspans
           /\ \A s \in (atEntry.nspans + 1)..Len(heap) :
                  /\ Closed(s)
                  /\ heap[s].end_time >= heap[s].start_time
                  /\ s \notin Range(active_spans)
    /\ pc \notin Terminal \cup {"IDLE"} =>
           /\ active_spans = Append(atEntry.active_spans, atEntry.nspans + 1)
           /\ \A s \in (atEntry.nspans + 2)..Len(heap) : Closed(s)

\* the exception handler returned after the loading and the analysis spans
C26_ReturnedThroughHandler ==
    /\ pc = "ERROR"
    /\ ~loadFailed
    /\ response.error = "mkdir failed"
    /\ Len(heap) = atEntry.nspans + 3
    /\ heap[Len(heap)].name = "data_analysis"
    /\ heap[Len(heap) - 1].name = "data_loading"
    /\ active_spans = <<>>

C22_DisabledRecordsNothing ==
    ~metrics_enabled =>
        /\ metrics = <<>>
        /\ counters = EmptyDict
        /\ timers = EmptyDict
        /\ \A i \in 1..Len(summaries) : summaries[i] = EmptyDict

\* each recording method has been called on a disabled collector, two of the
\* calls being increments, and get_summary has returned twice
C22_Witness ==
    /\ ~metrics_enabled
    /\ recordingCalls = {"increment", "record_timing", "gauge"}
    /\ Len(incremented) >= 2
    /\ Len(summaries) = 2
    /\ metrics = <<>>

Quiescent == \A t \in Threads : threads[t].pc = "idle"

\* C23: when no increment call is in progress, no counter exceeds the sum of
\* the values passed for its name, every counter that a call has touched holds
\* at least the value of the call that stored last, and if no call began while
\* another was in progress every counter equals that sum; an update can be
\* lost only by calls that overlapped.
C23_LostUpdateNeedsOverlap ==
    Quiescent =>
        /\ \A name \in CounterNames :
               LET total == PassedFor(name, incremented)
                   held == DictGet(counters, name, 0)
               IN  /\ held <= total
                   /\ total > 0 => held > 0
                   /\ ~overlapped => held = total
        /\ Len(metrics) = Len(incremented)

\* two calls increment(name, 2) overlapped and the counter ended at 2
C23_UpdateLost ==
    /\ Quiescent
    /\ overlapped
    /\ Len(incremented) = 2
    /\ incremented[1] = incremented[2]
    /\ incremented[1].value = 2
    /\ counters[incremented[1].name] = 2

ClosedOnStack == {s \in Range(active_spans) : Closed(s)}
OpenOffStack == {s \in 1..Len(heap) : ~Closed(s) /\ s \notin Range(active_spans)}
InProgress == UNION {Range(contexts[c]) : c \in Contexts}

\* C24: on a tracer shared by two contexts, a span is recorded under whatever
\* span is on top of the shared stack when it is opened, whichever context
\* opened that one; an exit closes its own span and pops the top of the stack,
\* so the stack always has as many spans as there are with-blocks in progress,
\* but for every span that was popped while still open a closed span stays on
\* the stack; none of this happens while exits meet their own span on top.
C24_SharedStackMixesContexts ==
    /\ Len(openedBy) = Len(heap)
    /\ \A s \in 1..Len(heap) :
           /\ s \in Range(spans) <=> openedUnder[s] = 0
           /\ \A parent \in 1..Len(heap) :
                  s \in Range(heap[parent].children) <=> openedUnder[s] = parent
           /\ ~Closed(s) <=> s \in InProgress
    /\ Len(active_spans) = Cardinality(InProgress)
    /\ Cardinality(ClosedOnStack) = Cardinality(OpenOffStack)
    /\ ~crossed => ClosedOnStack = {} /\ Range(active_spans) = InProgress

\* a span of one context is a child of a span of the other, and a closed
\* span is on the open-span stack while an open one is not
C24_Witness ==
    /\ \E s \in 1..Len(heap) :
           /\ openedUnder[s] # 0
           /\ openedBy[s] # openedBy[openedUnder[s]]
           /\ s \in Range(heap[openedUnder[s]].children)
    /\ \E s \in Range(active_spans) : Closed(s)
    /\ \E s \in InProgress : s \notin Range(active_spans)

\* the number of places span s takes in the root list and the children lists
Occurrences(s) ==
    Cardinality({i \in 1..Len(spans) : spans[i] = s})
    + Sum([p \in 1..Len(heap) |->
              Cardinality({i \in 1..Len(heap[p].children) : heap[p].children[i] = s})])

IsPrefix(a, b) == Len(a) <= Len(b) /\ SubSeq(b, 1, Len(a)) = a

ForestAndStack ==
    /\ \A s \in 1..Len(heap) :
           /\ Occurrences(s) = 1
           /\ ~Closed(s) <=> s \in Range(active_spans)
    /\ \A i \in 1..Len(active_spans) :
           active_spans[i] = IF i = 1 THEN Last(spans)
                             ELSE Last(heap[active_spans[i - 1]].children)
    /\ ~tracer_enabled => heap = <<>>

OnlyAppended ==
    /\ IsPrefix(spans, spans')
    /\ Len(heap) <= Len(heap')
    /\ \A s \in 1..Len(heap) : IsPrefix(heap[s].children, heap'[s].children)

\* C29: under sequential use, each span created is in the forest exactly once
\* (a root or a child of exactly one span); the open-span stack is a chain from
\* the last root through last children; a span has no end_time exactly when it
\* is on the stack; and the root list and every children list only grow, at
\* their end.
C29_ForestStackChain == []ForestAndStack /\ [][OnlyAppended]_vars

\* a root with a closed first child and an open second child
C29_Witness ==
    /\ active_spans = <<1, 3>>
    /\ spans = <<1>>
    /\ heap[1].children = <<2, 3>>
    /\ Closed(2)
    /\ ~Closed(1) /\ ~Closed(3)

\* a step that is a store or store_insight call whose write of the backing
\* document did not complete
FailedStoreStep ==
    /\ bankHistory'.calls = bankHistory.calls + 1
    /\ bankCall'.outcome # "saved" \/ ~AllSerializable(memories')

\* C28: a store whose persistence step fails leaves the backing document as
\* it was, so that a MemoryBank constructed afterwards loads what it would
\* have loaded before the call.
C28_FailedWriteKeepsDocument ==
    [][FailedStoreStep => disk' = disk /\ LoadMemories(disk') = LoadMemories(disk)]_vars

\* C27: with two banks open on one path, whenever the backing document is a
\* complete one it holds every key that either bank has ever written.
C27_NoEntryLostBetweenBanks ==
    disk.state = "written" => everPersisted \subseteq MemoryKeys(LoadMemories(disk))


\* C25: constructing a coordinator with the id of a session that a coordinator
\* of the process holds does not raise, and the new coordinator's session is
\* the one with that id, with the messages it had.
C25_AttachesToExistingSession ==
    constructed.session_id \in constructed.existing =>
        /\ ~constructed.raised
        /\ Last(coordinators).session = constructed.session_id

=============================================================================
